---- MODULE Spec2Model ----
(***************************************************************************)
(* Object-lifecycle core of the nphysics adapter: the generational slot    *)
(* storage, the per-kind lifecycle servers (bodies, areas, shapes,         *)
(* joints), the deferred garbage collector run by step, and the two-level  *)
(* locking (table RwLock + per-slot Mutex).                                *)
(*                                                                         *)
(* Slot indices are those of the code (0-based).  Option<T> is a sequence   *)
(* of length 0 (None) or 1 (Some).                                          *)
(***************************************************************************)
EXTENDS Naturals, Integers, Sequences, FiniteSets, TLC

None == <<>>
Some(x) == <<x>>
IsSome(o) == o # <<>>
IsNone(o) == o = <<>>
Unwrap(o) == o[1]

(***************************************************************************)
(* Bounds of the model.                                                    *)
(***************************************************************************)
\* SpecStorage: inserts made on the table under test.
MaxInserts == 4
\* Spec: slots each table starts with (and grows by).
TableCap == 1
\* Spec: bodies, areas, shapes and joints created in a run.
MaxObjects == 3
\* Spec: colliders built in a run.
MaxColliders == 2
\* Inserts into the collider table where update_shape replaces two bodies' colliders.
MaxReplaced == 4
\* Spec: constraints created between two steps.
MaxJointEvents == 2
\* SpecContacts: the largest contacts-to-report count asked for.
MaxContacts == 1
\* SpecContacts: entries of the watch-list.
MaxWatched == 3
\* SpecCodec: the largest index and the largest generation of a converted tag or key.
MaxTagIndex == 3
MaxTagGeneration == 3
\* SpecAnchors: isometries are those of a line of CoordMod points that wraps around.
CoordMod == 3
\* SpecEntities: the entities a caller gives to set_entity are 1..MaxEntity.
MaxEntity == 2
\* SpecLock: concurrent callers.
LockThreads == 2
\* SpecLock: slots of the body table.
LockBodies == 2

(***************************************************************************)
(* Storage<T>: a generational arena (index + generation keys) of slots.    *)
(* a.items is a function on 0..capacity-1.                                 *)
(***************************************************************************)
Key(i, g) == [index |-> i, generation |-> g]

FreeEntry(next) == [occ |-> FALSE, gen |-> 0, val |-> None, next |-> next]
OccEntry(g, v) == [occ |-> TRUE, gen |-> g, val |-> Some(v), next |-> None]

Capacity(a) == Cardinality(DOMAIN a.items)

\* Arena::reserve, as called by Storage::new (with_capacity) and Storage::insert.
Reserve(a, additional) ==
    IF additional = 0 THEN a
    ELSE LET start == Capacity(a)
             end == start + additional
         IN [a EXCEPT
               !.items = [i \in 0..(end - 1) |->
                            IF i < start THEN a.items[i]
                            ELSE IF i = end - 1 THEN FreeEntry(a.free_head)
                            ELSE FreeEntry(Some(i + 1))],
               !.free_head = Some(start)]

\* Storage::new(initial_capacity, growing_size); the arena allocates at least one slot.
NewStorage(initial_capacity, growing_size) ==
    Reserve([items |-> << >>, free_head |-> None, generation |-> 0, len |-> 0,
             growing_size |-> growing_size],
            IF initial_capacity = 0 THEN 1 ELSE initial_capacity)

\* The arena's own growth when its free list is empty: it doubles.
ArenaGrown(a) == IF IsNone(a.free_head) THEN Reserve(a, Capacity(a)) ELSE a

\* A variant the checks are tried against: a full table doubles.
InsertReserved_doubling(a) ==
    IF a.len = Capacity(a) THEN Reserve(a, Capacity(a)) ELSE a

\* Storage::insert: grows by growing_size when full, then takes the head of the free list.
InsertReserved(a) ==
    IF a.len = Capacity(a) THEN ArenaGrown(Reserve(a, a.growing_size)) ELSE a

InsertKey(a) ==
    LET b == InsertReserved(a)
    IN Key(Unwrap(b.free_head), b.generation)

Insert(a, v) ==
    LET b == InsertReserved(a)
        i == Unwrap(b.free_head)
    IN [b EXCEPT !.items[i] = OccEntry(b.generation, v),
                 !.free_head = b.items[i].next,
                 !.len = b.len + 1]

\* Arena::get, the lookup behind Storage::get, unchecked_get and unchecked_get_mut.
Resolves(a, k) ==
    /\ k.index \in DOMAIN a.items
    /\ a.items[k.index].occ
    /\ a.items[k.index].gen = k.generation

Get(a, k) == IF Resolves(a, k) THEN a.items[k.index].val ELSE None

UncheckedGet(a, k) == IF Resolves(a, k) THEN a.items[k.index].val ELSE None

\* What get_pair_mut gives: the failed assert_ne! (a panic, nothing is returned), or the
\* two references.
Panicked == [panicked |-> TRUE, refs |-> << >>]
Returned(b1, b2) == [panicked |-> FALSE, refs |-> <<b1, b2>>]

\* A variant the checks are tried against: the handles are not compared.
BodyStorage_get_pair_mut_unasserted(a, handle1, handle2) ==
    Returned(UncheckedGet(a, handle1), UncheckedGet(a, handle2))

\* BodyStorage::get_pair_mut (BodySet), on the Storage the table wraps
BodyStorage_get_pair_mut(a, handle1, handle2) ==
    IF handle1 = handle2 THEN Panicked
    ELSE Returned(UncheckedGet(a, handle1), UncheckedGet(a, handle2))

\* ColliderStorage::get_pair_mut (ColliderSet), on the Storage the table wraps
ColliderStorage_get_pair_mut(a, handle1, handle2) ==
    IF handle1 = handle2 THEN Panicked
    ELSE Returned(UncheckedGet(a, handle1), UncheckedGet(a, handle2))

\* Storage::has
Has(a, k) == IsSome(Get(a, k))

\* Storage::remove with the generation left as it was.
RemoveKeepGeneration(a, k) ==
    IF Resolves(a, k)
    THEN [a EXCEPT !.items[k.index] = FreeEntry(a.free_head),
                   !.free_head = Some(k.index),
                   !.len = a.len - 1]
    ELSE a

\* Storage::remove: frees the slot and bumps the arena's generation.
Remove(a, k) ==
    IF Resolves(a, k)
    THEN [a EXCEPT !.items[k.index] = FreeEntry(a.free_head),
                   !.generation = a.generation + 1,
                   !.free_head = Some(k.index),
                   !.len = a.len - 1]
    ELSE a

\* The value Storage::remove returns.
Removed(a, k) == Get(a, k)

\* Writes through a guard obtained from Storage::get.
Put(a, k, v) == [a EXCEPT !.items[k.index].val = Some(v)]

\* Keys of the stored objects (Storage::iter).
LiveKeys(a) == {Key(i, a.items[i].gen) : i \in {j \in DOMAIN a.items : a.items[j].occ}}

(***************************************************************************)
(* State.                                                                  *)
(***************************************************************************)
VARIABLES
    st,             \* SpecStorage: the table under test
    issued,         \* SpecStorage: keys returned by insert so far
    removed,        \* SpecStorage: keys remove was called with
    last,           \* the last operation called: its name, arguments and result
    bodies,         \* BodyStorage::storage (rigid bodies and areas)
    bodies_removed, \* BodyStorage::removed
    colliders,      \* ColliderStorage::storage
    col_inserted,   \* ColliderStorage::inserted
    col_removed,    \* ColliderStorage::removed
    shapes,         \* ServersStorage::shapes
    joints,         \* JointStorage::storage
    j_inserted,     \* JointStorage::inserted
    j_removed,      \* JointStorage::removed
    gc,             \* PhysicsGarbageCollector: bodies, areas, shapes, joints
    watch_contacts, \* the watch-list behind ServersStorage::watch_contacts_w
    prox_events,    \* GeometricalWorld::proximity_events() of the pass just run
    proximity,      \* GeometricalWorld: the proximity status of each pair it tracks
    delivered,      \* history: the type of the last event delivered for each tracked pair
    pc,             \* position of the stepping thread inside WorldNpServer::step
    hung,           \* a call locked a slot Mutex its own thread already holds
    requested_attached, \* history: shapes whose handle was released while attached
    destroyed,      \* history: the (table, key) pairs the collector has destroyed
    woken,          \* history: the bodies the last step of the program woke up
    replaced,       \* history: the shape reference the body of the last set_shape call had
    rwlock,         \* SpecLock: the RwLock of each table, its writer and its readers
    slot_mutex,     \* SpecLock: the Mutex of each slot, the threads inside it
    thread,         \* SpecLock: each caller's operation and the steps it has left
    body_shape_key, \* SpecLock: Body::shape_key of each body slot
    joint_slots,    \* SpecLock: Joint::body_0, body_1 and np_joint of the joint
    overlap_queue   \* SpecLock: the areas' event lists: complete, emptied or partly filled

stVars == <<st, issued, removed>>
worldVars == <<bodies, bodies_removed, colliders, col_inserted, col_removed, shapes,
               joints, j_inserted, j_removed, gc, watch_contacts, prox_events, proximity,
               delivered, destroyed, woken, replaced,
               pc, hung>>
lockVars == <<rwlock, slot_mutex, thread, body_shape_key, joint_slots, overlap_queue>>
vars == <<stVars, last, requested_attached, worldVars, lockVars>>

NoOp == [op |-> "none", key |-> None, arg |-> None, ret |-> None]
Call(op, key, arg, ret) == [op |-> op, key |-> key, arg |-> arg, ret |-> ret]

\* The tables as one value, so that a handler is a function from tables to tables.
World ==
    [bodies |-> bodies, bodies_removed |-> bodies_removed, colliders |-> colliders,
     col_inserted |-> col_inserted, col_removed |-> col_removed, shapes |-> shapes,
     joints |-> joints, j_inserted |-> j_inserted, j_removed |-> j_removed, gc |-> gc,
     watch_contacts |-> watch_contacts]

Commit(w) ==
    /\ bodies' = w.bodies
    /\ bodies_removed' = w.bodies_removed
    /\ colliders' = w.colliders
    /\ col_inserted' = w.col_inserted
    /\ col_removed' = w.col_removed
    /\ shapes' = w.shapes
    /\ joints' = w.joints
    /\ j_inserted' = w.j_inserted
    /\ j_removed' = w.j_removed
    /\ gc' = w.gc
    /\ watch_contacts' = w.watch_contacts

WorldIs(w) ==
    /\ bodies = w.bodies
    /\ bodies_removed = w.bodies_removed
    /\ colliders = w.colliders
    /\ col_inserted = w.col_inserted
    /\ col_removed = w.col_removed
    /\ shapes = w.shapes
    /\ joints = w.joints
    /\ j_inserted = w.j_inserted
    /\ j_removed = w.j_removed
    /\ gc = w.gc
    /\ watch_contacts = w.watch_contacts

\* ServersStorage::new and PhysicsGarbageCollector::default, with the tables sized cap.
NewWorld(bcap, ccap, scap, jcap) ==
    [bodies |-> NewStorage(bcap, bcap), bodies_removed |-> << >>,
     colliders |-> NewStorage(ccap, ccap), col_inserted |-> << >>, col_removed |-> << >>,
     shapes |-> NewStorage(scap, scap),
     joints |-> NewStorage(jcap, jcap), j_inserted |-> << >>, j_removed |-> << >>,
     gc |-> [bodies |-> << >>, areas |-> << >>, shapes |-> << >>, joints |-> << >>],
     watch_contacts |-> << >>]

(***************************************************************************)
(* Records of the stored objects.                                          *)
(***************************************************************************)
(***************************************************************************)
(* Isometry3, as far as the joints use it: a transform of a line that wraps *)
(* around, x |-> r * x + t, with r a reflection or not.  The product is    *)
(* not commutative.                                                        *)
(***************************************************************************)
Isometries == [r : {1, -1}, t : 0..(CoordMod - 1)]

\* Isometry3::identity
IsoIdentity == [r |-> 1, t |-> 0]

\* Isometry3 * Isometry3: apply b, then a
IsoMul(a, b) == [r |-> a.r * b.r, t |-> (a.r * b.t + a.t) % CoordMod]

\* Isometry3::inverse
IsoInverse(a) == [r |-> a.r, t |-> (-(a.r * a.t)) % CoordMod]

\* Body::new_rigid_body.  The fields of BodyData::Rigid (contacts_to_report, contacts)
\* and of BodyData::Area (events) are in one record; kind says which are in use.
new_rigid_body(contacts_to_report) ==
    [kind |-> "Rigid", collider_key |-> None, shape_key |-> None, entity |-> None,
     events |-> << >>, active |-> TRUE, contacts_to_report |-> contacts_to_report,
     contacts |-> << >>, transform |-> IsoIdentity]

\* Body::new_area
new_area ==
    [kind |-> "Area", collider_key |-> None, shape_key |-> None, entity |-> None,
     events |-> << >>, active |-> TRUE, contacts_to_report |-> 0, contacts |-> << >>,
     transform |-> IsoIdentity]

\* RigidShape::new
new_shape(concave) == [bodies |-> << >>, marked_for_drop |-> FALSE, concave |-> concave]

\* Joint::new, with the placement create_joint hands it
new_joint(initial_isometry) ==
    [np_joint |-> None, body_0 |-> None, body_1 |-> None,
     initial_isometry |-> initial_isometry]

\* UserData::new, stored in the collider with what the collider description fixed.
new_collider(object_type, store_key, entity, desc) ==
    [object_type |-> object_type, store_key |-> store_key, entity |-> entity,
     density |-> desc.density, sensor |-> desc.sensor, material |-> desc.material,
     registered |-> FALSE]

\* RigidShape::register_body
register_body(shape, body) == [shape EXCEPT !.bodies = Append(@, body)]

\* RigidShape::unregister_body
unregister_body(shape, body) ==
    [shape EXCEPT !.bodies = SelectSeq(@, LAMBDA b : b # body)]

\* RigidShape::is_concave
is_concave(shape) == shape.concave

(***************************************************************************)
(* ColliderStorage and BodyStorage.                                        *)
(***************************************************************************)
\* ColliderStorage::insert_collider
insert_collider(w, collider) ==
    [w EXCEPT !.colliders = Insert(@, collider),
              !.col_inserted = Append(@, InsertKey(w.colliders))]

\* ColliderStorage::drop_collider: a removal event only for a collider the engine knows.
ColliderStorage_drop_collider(w, key) ==
    LET res == Removed(w.colliders, key)
    IN [w EXCEPT !.colliders = Remove(@, key),
                 !.col_removed = IF IsSome(res) /\ Unwrap(res).registered
                                 THEN Append(@, key) ELSE @]

\* BodyStorage::drop_body
BodyStorage_drop_body(w, key) ==
    [w EXCEPT !.bodies = Remove(@, key), !.bodies_removed = Append(@, key)]

(***************************************************************************)
(* RBodyNpServer and AreaNpServer: the shape / collider attachment.  Each   *)
(* takes the key of a stored body, whose slot guard the caller holds.       *)
(***************************************************************************)
BodyOf(w, key) == Unwrap(Get(w.bodies, key))
ShapeOf(w, key) == Unwrap(Get(w.shapes, key))
SetBody(w, key, field, value) ==
    [w EXCEPT !.bodies = Put(@, key, [BodyOf(w, key) EXCEPT ![field] = value])]

\* A variant the checks are tried against: every shape is given density one.
RBody_create_collider_desc_solid(body, shape) ==
    [density |-> 1, sensor |-> FALSE, material |-> TRUE]

\* RBodyNpServer::create_collider_desc
RBody_create_collider_desc(body, shape) ==
    [density |-> IF is_concave(shape) THEN 0 ELSE 1, sensor |-> FALSE, material |-> TRUE]

\* AreaNpServer::create_collider_desc
Area_create_collider_desc(body, shape) ==
    [density |-> 0, sensor |-> TRUE, material |-> FALSE]

\* RBodyNpServer::update_user_data
RBody_update_user_data(collider, key, body) ==
    [collider EXCEPT !.object_type = "RigidBody", !.store_key = key, !.entity = body.entity]

\* AreaNpServer::update_user_data
Area_update_user_data(collider, key, body) ==
    [collider EXCEPT !.object_type = "Area", !.store_key = key, !.entity = body.entity]

\* A variant the checks are tried against: the collider is stored, the body does not
\* record its key.
RBody_install_collider_unrecorded(w, key, desc) ==
    insert_collider(w, RBody_update_user_data(
                           new_collider("RigidBody", key, None, desc), key, BodyOf(w, key)))

\* RBodyNpServer::install_collider
RBody_install_collider(w, key, desc) ==
    LET collider == RBody_update_user_data(
                        new_collider("RigidBody", key, None, desc), key, BodyOf(w, key))
        w1 == insert_collider(w, collider)
    IN SetBody(w1, key, "collider_key", Some(InsertKey(w.colliders)))

\* AreaNpServer::install_collider
Area_install_collider(w, key, desc) ==
    LET collider == Area_update_user_data(
                        new_collider("Area", key, None, desc), key, BodyOf(w, key))
        w1 == insert_collider(w, collider)
    IN SetBody(w1, key, "collider_key", Some(InsertKey(w.colliders)))

\* A variant the checks are tried against: the body forgets its collider, which stays
\* in the collider table.
RBody_drop_collider_forgetting(w, key) == SetBody(w, key, "collider_key", None)

\* RBodyNpServer::drop_collider
RBody_drop_collider(w, key) ==
    LET body == BodyOf(w, key)
    IN IF IsSome(body.collider_key)
       THEN SetBody(ColliderStorage_drop_collider(w, Unwrap(body.collider_key)),
                    key, "collider_key", None)
       ELSE w

\* AreaNpServer::drop_collider
Area_drop_collider(w, key) ==
    LET area == BodyOf(w, key)
    IN IF IsSome(area.collider_key)
       THEN SetBody(ColliderStorage_drop_collider(w, Unwrap(area.collider_key)),
                    key, "collider_key", None)
       ELSE w

\* A variant the checks are tried against: the body that detaches takes the shape out
\* of the shape table at once.
DetachShapeAndDrop(w, key) ==
    LET body == BodyOf(w, key)
    IN IF IsSome(body.shape_key)
       THEN SetBody([w EXCEPT !.shapes = Remove(@, Unwrap(body.shape_key))],
                    key, "shape_key", None)
       ELSE w

\* The first half of remove_shape (same code in both servers): unregister and forget the shape.
DetachShape(w, key) ==
    LET body == BodyOf(w, key)
    IN IF IsSome(body.shape_key)
       THEN LET shape_key == Unwrap(body.shape_key)
                w1 == IF Has(w.shapes, shape_key)
                      THEN [w EXCEPT !.shapes =
                                Put(@, shape_key, unregister_body(ShapeOf(w, shape_key), key))]
                      ELSE w
            IN SetBody(w1, key, "shape_key", None)
       ELSE w

\* RBodyNpServer::remove_shape
RBody_remove_shape(w, key) == RBody_drop_collider(DetachShape(w, key), key)

\* AreaNpServer::remove_shape
Area_remove_shape(w, key) == Area_drop_collider(DetachShape(w, key), key)

\* The second half of install_shape (same code in both servers): register on the shape.
AttachShape(w, key, shape_key) ==
    SetBody([w EXCEPT !.shapes =
                Put(@, shape_key, register_body(ShapeOf(w, shape_key), key))],
            key, "shape_key", Some(shape_key))

\* RBodyNpServer::install_shape
RBody_install_shape(w, key, shape_key, desc) ==
    AttachShape(RBody_install_collider(w, key, desc), key, shape_key)

\* AreaNpServer::install_shape
Area_install_shape(w, key, shape_key, desc) ==
    AttachShape(Area_install_collider(w, key, desc), key, shape_key)

\* A variant the checks are tried against: the new shape is looked up before the old
\* one is removed, and nothing is done when it is not found.
RBody_set_shape_checking_first(w, body_key, shape_key) ==
    IF Has(w.bodies, body_key)
    THEN IF BodyOf(w, body_key).shape_key = shape_key THEN w
         ELSE IF IsSome(shape_key) /\ ~Has(w.shapes, Unwrap(shape_key)) THEN w
         ELSE LET w1 == IF IsSome(BodyOf(w, body_key).shape_key)
                        THEN RBody_remove_shape(w, body_key) ELSE w
              IN IF IsSome(shape_key)
                 THEN RBody_install_shape(w1, body_key, Unwrap(shape_key),
                          RBody_create_collider_desc(BodyOf(w1, body_key),
                                                     ShapeOf(w1, Unwrap(shape_key))))
                 ELSE w1
    ELSE w

\* RBodyNpServer::set_shape
RBody_set_shape(w, body_key, shape_key) ==
    IF Has(w.bodies, body_key)
    THEN IF BodyOf(w, body_key).shape_key = shape_key THEN w
         ELSE LET w1 == IF IsSome(BodyOf(w, body_key).shape_key)
                        THEN RBody_remove_shape(w, body_key) ELSE w
              IN IF IsSome(shape_key) /\ Has(w1.shapes, Unwrap(shape_key))
                 THEN RBody_install_shape(w1, body_key, Unwrap(shape_key),
                          RBody_create_collider_desc(BodyOf(w1, body_key),
                                                     ShapeOf(w1, Unwrap(shape_key))))
                 ELSE w1
    ELSE w

\* A variant the checks are tried against: the shape is removed and installed again
\* even when it is the shape the area already references.
Area_set_shape_reinstalling(w, area_key, shape_key) ==
    IF Has(w.bodies, area_key)
    THEN LET w1 == IF IsSome(BodyOf(w, area_key).shape_key)
                   THEN Area_remove_shape(w, area_key) ELSE w
         IN IF IsSome(shape_key) /\ Has(w1.shapes, Unwrap(shape_key))
            THEN Area_install_shape(w1, area_key, Unwrap(shape_key),
                     Area_create_collider_desc(BodyOf(w1, area_key),
                                               ShapeOf(w1, Unwrap(shape_key))))
            ELSE w1
    ELSE w

\* AreaNpServer::set_shape
Area_set_shape(w, area_key, shape_key) ==
    IF Has(w.bodies, area_key)
    THEN IF BodyOf(w, area_key).shape_key # shape_key
         THEN LET w1 == IF IsSome(BodyOf(w, area_key).shape_key)
                        THEN Area_remove_shape(w, area_key) ELSE w
              IN IF IsSome(shape_key) /\ Has(w1.shapes, Unwrap(shape_key))
                 THEN Area_install_shape(w1, area_key, Unwrap(shape_key),
                          Area_create_collider_desc(BodyOf(w1, area_key),
                                                    ShapeOf(w1, Unwrap(shape_key))))
                 ELSE w1
         ELSE w
    ELSE w

\* A variant the checks are tried against: the body is freed with its shape attached.
drop_body_attached(w, body_key) == BodyStorage_drop_body(w, body_key)

\* RBodyNpServer::drop_body
drop_body(w, body_key) ==
    BodyStorage_drop_body(
        IF Has(w.bodies, body_key) THEN RBody_remove_shape(w, body_key) ELSE w, body_key)

\* AreaNpServer::drop_area
drop_area(w, area_key) ==
    BodyStorage_drop_body(
        IF Has(w.bodies, area_key) THEN Area_remove_shape(w, area_key) ELSE w, area_key)

(***************************************************************************)
(* The contact watch-list.                                                 *)
(***************************************************************************)
InSeq(x, seq) == \E i \in DOMAIN seq : seq[i] = x

\* Ord of StoreKey (generational_arena::Index): by index, then by generation.
KeyLess(a, b) ==
    a.index < b.index \/ (a.index = b.index /\ a.generation < b.generation)

\* slice::binary_search on a 0-based slice held as seq[1..]: the halving loop over
\* [left, right), whatever the order of the slice; Some(i) for Ok(i), None for Err.
RECURSIVE binary_search_from(_, _, _, _)
binary_search_from(seq, key, left, right) ==
    IF left < right
    THEN LET mid == left + ((right - left) \div 2)
         IN IF KeyLess(seq[mid + 1], key) THEN binary_search_from(seq, key, mid + 1, right)
            ELSE IF KeyLess(key, seq[mid + 1]) THEN binary_search_from(seq, key, left, mid)
            ELSE Some(mid)
    ELSE None

binary_search(seq, key) == binary_search_from(seq, key, 0, Len(seq))

\* Vec::remove(i), 0-based
VecRemove(seq, i) == SubSeq(seq, 1, i) \o SubSeq(seq, i + 2, Len(seq))

\* RBodyNpServer::update_contacts_watcher
update_contacts_watcher(w, key) ==
    IF BodyOf(w, key).kind = "Rigid"
    THEN LET i == binary_search(w.watch_contacts, key)
         IN IF IsSome(i)
            THEN IF BodyOf(w, key).contacts_to_report = 0
                 THEN [w EXCEPT !.watch_contacts = VecRemove(@, Unwrap(i))]
                 ELSE w
            ELSE IF BodyOf(w, key).contacts_to_report # 0
                 THEN [w EXCEPT !.watch_contacts = Append(@, key)]
                 ELSE w
    ELSE w

\* RBodyNpServer::set_contacts_to_report
set_contacts_to_report(w, body_key, count) ==
    IF Has(w.bodies, body_key)
    THEN update_contacts_watcher(
             IF BodyOf(w, body_key).kind = "Rigid"
             THEN SetBody(w, body_key, "contacts_to_report", count) ELSE w,
             body_key)
    ELSE w

\* RBodyNpServer::contacts_to_report
contacts_to_report(w, body_key) ==
    IF Has(w.bodies, body_key)
    THEN IF BodyOf(w, body_key).kind = "Rigid"
         THEN BodyOf(w, body_key).contacts_to_report ELSE 0
    ELSE 0

\* RBodyNpServer::contact_events: what out_contacts holds when it returns
contact_events(w, body_key) ==
    IF Has(w.bodies, body_key) /\ BodyOf(w, body_key).kind = "Rigid"
    THEN BodyOf(w, body_key).contacts
    ELSE << >>

\* RBodyNpServer::create
create_rigid_body(w, count) ==
    update_contacts_watcher([w EXCEPT !.bodies = Insert(@, new_rigid_body(count))],
                            InsertKey(w.bodies))

(***************************************************************************)
(* ShapeNpServer.                                                          *)
(***************************************************************************)
\* ShapeNpServer::has_dependency
has_dependency(w, shape_key) ==
    IF Has(w.shapes, shape_key)
    THEN IF ShapeOf(w, shape_key).bodies = << >> THEN TRUE ELSE FALSE
    ELSE FALSE

\* ShapeNpServer::drop_shape, its return value
drop_shape_done(w, shape_tag) == ~has_dependency(w, shape_tag)

\* ShapeNpServer::drop_shape
drop_shape(w, shape_tag) ==
    LET safe_to_drop == ~has_dependency(w, shape_tag)
    IN IF ~safe_to_drop
       THEN IF Has(w.shapes, shape_tag) /\ ~ShapeOf(w, shape_tag).marked_for_drop
            THEN [w EXCEPT !.shapes =
                     Put(@, shape_tag, [ShapeOf(w, shape_tag) EXCEPT !.marked_for_drop = TRUE])]
            ELSE w
       ELSE [w EXCEPT !.shapes = Remove(@, shape_tag)]

\* RigidShape::update
update(shape, concave) == [shape EXCEPT !.concave = concave]

\* RBodyNpServer::extract_collider_desc, called by update_shape
RBody_extract_collider_desc(body, shape) == RBody_create_collider_desc(body, shape)

\* AreaNpServer::extract_collider_desc, called by update_shape
Area_extract_collider_desc(body, shape) == Area_create_collider_desc(body, shape)

\* ShapeNpServer::update_shape, the loop over the shape's bodies
RECURSIVE update_shape_bodies(_, _, _)
update_shape_bodies(w, shape_key, b_keys) ==
    IF b_keys = << >> THEN w
    ELSE LET body_key == Head(b_keys)
             w1 == IF Has(w.bodies, body_key)
                   THEN IF BodyOf(w, body_key).kind = "Rigid"
                        THEN RBody_install_collider(
                                 RBody_drop_collider(w, body_key), body_key,
                                 RBody_extract_collider_desc(BodyOf(w, body_key),
                                                             ShapeOf(w, shape_key)))
                        ELSE Area_install_collider(
                                 Area_drop_collider(w, body_key), body_key,
                                 Area_extract_collider_desc(BodyOf(w, body_key),
                                                            ShapeOf(w, shape_key)))
                   ELSE w
         IN update_shape_bodies(w1, shape_key, Tail(b_keys))

\* A variant the checks are tried against: the shape is updated and the colliders of
\* its bodies are left as they are.
update_shape_geometry_only(w, shape_key, concave) ==
    IF Has(w.shapes, shape_key)
    THEN [w EXCEPT !.shapes = Put(@, shape_key, update(ShapeOf(w, shape_key), concave))]
    ELSE w

\* ShapeNpServer::update_shape
update_shape(w, shape_key, concave) ==
    IF Has(w.shapes, shape_key)
    THEN LET w1 == [w EXCEPT !.shapes =
                       Put(@, shape_key, update(ShapeOf(w, shape_key), concave))]
         IN update_shape_bodies(w1, shape_key, ShapeOf(w1, shape_key).bodies)
    ELSE w

(***************************************************************************)
(* JointNpServer and JointStorage.                                         *)
(***************************************************************************)
JointOf(w, key) == Unwrap(Get(w.joints, key))
SetJoint(w, key, field, value) ==
    [w EXCEPT !.joints = Put(@, key, [JointOf(w, key) EXCEPT ![field] = value])]

\* What JointStorage queues for the engine: the joint and the two body parts it anchors.
JointEvent(key, np_joint) ==
    [key |-> key, body_0 |-> np_joint.body_0, body_1 |-> np_joint.body_1]

\* A variant the checks are tried against: the body is left as it is.
active_body_skipped(w, body_key) == w

\* RBodyNpServer::active_body
active_body(w, body_key) ==
    IF Has(w.bodies, body_key) THEN SetBody(w, body_key, "active", TRUE) ELSE w

\* A variant the checks are tried against: the constraint is announced twice.
notify_joint_created_twice(w, key) ==
    IF Has(w.joints, key) /\ IsSome(JointOf(w, key).np_joint)
    THEN [w EXCEPT !.j_inserted =
             Append(Append(@, JointEvent(key, Unwrap(JointOf(w, key).np_joint))),
                    JointEvent(key, Unwrap(JointOf(w, key).np_joint)))]
    ELSE w

\* JointStorage::notify_joint_created
notify_joint_created(w, key) ==
    IF Has(w.joints, key) /\ IsSome(JointOf(w, key).np_joint)
    THEN [w EXCEPT !.j_inserted = Append(@, JointEvent(key, Unwrap(JointOf(w, key).np_joint)))]
    ELSE w

\* JointStorage::notify_joint_removed
notify_joint_removed(w, key) ==
    IF Has(w.joints, key) /\ IsSome(JointOf(w, key).np_joint)
    THEN [w EXCEPT !.j_removed = Append(@, JointEvent(key, Unwrap(JointOf(w, key).np_joint)))]
    ELSE w

\* JointStorage::drop_joint
JointStorage_drop_joint(w, key) ==
    LET res == Removed(w.joints, key)
    IN [w EXCEPT !.joints = Remove(@, key),
                 !.j_removed = IF IsSome(res) /\ IsSome(Unwrap(res).np_joint)
                               THEN Append(@, JointEvent(key, Unwrap(Unwrap(res).np_joint)))
                               ELSE @]

\* JointNpServer::drop_joint
drop_joint(w, j_key) ==
    LET w1 == IF Has(w.joints, j_key) /\ IsSome(JointOf(w, j_key).body_0)
              THEN active_body(w, Unwrap(JointOf(w, j_key).body_0)) ELSE w
        w2 == IF Has(w1.joints, j_key) /\ IsSome(JointOf(w1, j_key).body_1)
              THEN active_body(w1, Unwrap(JointOf(w1, j_key).body_1)) ELSE w1
    IN JointStorage_drop_joint(w2, j_key)

\* A variant the checks are tried against: the anchor is the joint's placement itself,
\* as if the body were where it was created.
anchor_of_creation(body_trsf, initial_isometry) == initial_isometry

\* JointNpServer::update_internal_joint: anchor_0, anchor_1
anchor(body_trsf, initial_isometry) == IsoMul(IsoInverse(body_trsf), initial_isometry)

\* Body::set_body_transform, of RBodyNpServer::set_transform
set_transform(w, body_key, transf) ==
    IF Has(w.bodies, body_key) THEN SetBody(w, body_key, "transform", transf) ELSE w

\* A variant the checks are tried against: the entity is written to the body only.
RBody_set_entity_body_only(w, body_key, entity) ==
    IF ~Has(w.bodies, body_key) THEN w
    ELSE IF BodyOf(w, body_key).kind # "Rigid" THEN w
    ELSE SetBody(w, body_key, "entity", entity)

\* RBodyNpServer::set_entity
RBody_set_entity(w, body_key, entity) ==
    IF ~Has(w.bodies, body_key) THEN w
    ELSE IF BodyOf(w, body_key).kind # "Rigid" THEN w
    ELSE LET w1 == SetBody(w, body_key, "entity", entity)
             body == BodyOf(w1, body_key)
         IN IF IsSome(body.collider_key) /\ Has(w1.colliders, Unwrap(body.collider_key))
            THEN [w1 EXCEPT !.colliders =
                     Put(@, Unwrap(body.collider_key),
                         RBody_update_user_data(
                             Unwrap(Get(w1.colliders, Unwrap(body.collider_key))),
                             body_key, body))]
            ELSE w1

\* AreaNpServer::set_entity
Area_set_entity(w, area_key, entity) ==
    IF ~Has(w.bodies, area_key) THEN w
    ELSE IF BodyOf(w, area_key).kind # "Area" THEN w
    ELSE LET w1 == SetBody(w, area_key, "entity", entity)
             area == BodyOf(w1, area_key)
         IN IF IsSome(area.collider_key) /\ Has(w1.colliders, Unwrap(area.collider_key))
            THEN [w1 EXCEPT !.colliders =
                     Put(@, Unwrap(area.collider_key),
                         Area_update_user_data(
                             Unwrap(Get(w1.colliders, Unwrap(area.collider_key))),
                             area_key, area))]
            ELSE w1

\* JointNpServer::update_internal_joint asks for the guard of a body while it holds it:
\* both slots of the joint name the same stored body.
update_internal_joint_relocks(w, joint_key) ==
    /\ Has(w.joints, joint_key)
    /\ IsNone(JointOf(w, joint_key).np_joint)
    /\ IsSome(JointOf(w, joint_key).body_0)
    /\ IsSome(JointOf(w, joint_key).body_1)
    /\ JointOf(w, joint_key).body_0 = JointOf(w, joint_key).body_1
    /\ Has(w.bodies, Unwrap(JointOf(w, joint_key).body_0))

\* JointNpServer::update_internal_joint
update_internal_joint(w, joint_key) ==
    IF ~Has(w.joints, joint_key) THEN w
    ELSE LET joint == JointOf(w, joint_key)
         IN IF IsSome(joint.np_joint)
            THEN IF IsNone(joint.body_0) \/ IsNone(joint.body_1)
                 THEN notify_joint_removed(SetJoint(w, joint_key, "np_joint", None), joint_key)
                 ELSE w
            ELSE IF IsSome(joint.body_0) /\ IsSome(joint.body_1)
                 THEN IF ~Has(w.bodies, Unwrap(joint.body_0))
                         \/ ~Has(w.bodies, Unwrap(joint.body_1))
                      THEN w
                      ELSE notify_joint_created(
                               SetJoint(w, joint_key, "np_joint",
                                        Some([body_0 |-> Unwrap(joint.body_0),
                                              body_1 |-> Unwrap(joint.body_1),
                                              anchor_0 |->
                                                  anchor(BodyOf(w, Unwrap(joint.body_0))
                                                             .transform,
                                                         joint.initial_isometry),
                                              anchor_1 |->
                                                  anchor(BodyOf(w, Unwrap(joint.body_1))
                                                             .transform,
                                                         joint.initial_isometry)])),
                               joint_key)
                 ELSE w

\* JointNpServer::insert_rigid_body rejects the call: both slots are taken.
insert_rigid_body_rejected(w, joint_key) ==
    /\ Has(w.joints, joint_key)
    /\ IsSome(JointOf(w, joint_key).body_0)
    /\ IsSome(JointOf(w, joint_key).body_1)

\* JointNpServer::insert_rigid_body, the slot assignment
insert_rigid_body_slot(w, joint_key, body_key) ==
    IF Has(w.joints, joint_key)
    THEN IF IsNone(JointOf(w, joint_key).body_0)
         THEN SetJoint(w, joint_key, "body_0", Some(body_key))
         ELSE IF IsNone(JointOf(w, joint_key).body_1)
              THEN SetJoint(w, joint_key, "body_1", Some(body_key))
              ELSE w
    ELSE w

\* A variant the checks are tried against: a third body takes the second slot.
insert_rigid_body_overwriting(w, joint_key, body_key) ==
    IF insert_rigid_body_rejected(w, joint_key)
    THEN SetJoint(w, joint_key, "body_1", Some(body_key))
    ELSE update_internal_joint(insert_rigid_body_slot(w, joint_key, body_key), joint_key)

\* JointNpServer::insert_rigid_body
insert_rigid_body(w, joint_key, body_key) ==
    IF insert_rigid_body_rejected(w, joint_key) THEN w
    ELSE update_internal_joint(insert_rigid_body_slot(w, joint_key, body_key), joint_key)

\* JointNpServer::remove_rigid_body, up to the call of update_internal_joint
remove_rigid_body_slot(w, joint_key, body_key) ==
    IF Has(w.joints, joint_key)
    THEN LET w1 == IF IsSome(JointOf(w, joint_key).body_0)
                   THEN active_body(w, Unwrap(JointOf(w, joint_key).body_0)) ELSE w
             w2 == IF IsSome(JointOf(w, joint_key).body_1)
                   THEN active_body(w1, Unwrap(JointOf(w, joint_key).body_1)) ELSE w1
         IN IF JointOf(w, joint_key).body_0 = Some(body_key)
            THEN SetJoint(w2, joint_key, "body_0", None)
            ELSE IF JointOf(w, joint_key).body_1 = Some(body_key)
                 THEN SetJoint(w2, joint_key, "body_1", None)
                 ELSE w2
    ELSE w

\* JointNpServer::remove_rigid_body
remove_rigid_body(w, joint_key, body_key) ==
    update_internal_joint(remove_rigid_body_slot(w, joint_key, body_key), joint_key)

(***************************************************************************)
(* WorldNpServer: garbage_collect, the engine's pass, fetch_events.        *)
(***************************************************************************)
RECURSIVE drop_bodies(_, _)
drop_bodies(w, tags) ==
    IF tags = << >> THEN w ELSE drop_bodies(drop_body(w, Head(tags)), Tail(tags))

RECURSIVE drop_areas(_, _)
drop_areas(w, tags) ==
    IF tags = << >> THEN w ELSE drop_areas(drop_area(w, Head(tags)), Tail(tags))

\* garbage_collect, first block: the queued bodies, then the queued areas.
gc_bodies_and_areas(w) ==
    LET w1 == drop_bodies(w, w.gc.bodies)
        w2 == [w1 EXCEPT !.gc.bodies = << >>]
        w3 == drop_areas(w2, w2.gc.areas)
    IN [w3 EXCEPT !.gc.areas = << >>]

\* garbage_collect, second block: the loop filling removed_shape.
RECURSIVE removed_shape(_, _)
removed_shape(w, tags) ==
    IF tags = << >> THEN << >>
    ELSE IF drop_shape_done(w, Head(tags))
         THEN <<Head(tags)>> \o removed_shape(drop_shape(w, Head(tags)), Tail(tags))
         ELSE removed_shape(drop_shape(w, Head(tags)), Tail(tags))

RECURSIVE drop_shapes(_, _)
drop_shapes(w, tags) ==
    IF tags = << >> THEN w ELSE drop_shapes(drop_shape(w, Head(tags)), Tail(tags))

\* garbage_collect, second block: the queued shapes.
gc_shapes(w) ==
    LET rs == removed_shape(w, w.gc.shapes)
        w1 == drop_shapes(w, w.gc.shapes)
    IN IF rs = << >>
       THEN [w1 EXCEPT !.gc.shapes = SelectSeq(@, LAMBDA t : ~InSeq(t, rs))]
       ELSE w1

RECURSIVE drop_joints(_, _)
drop_joints(w, tags) ==
    IF tags = << >> THEN w ELSE drop_joints(drop_joint(w, Head(tags)), Tail(tags))

\* A variant the checks are tried against: the queued joints are left for later.
gc_joints_left(w) == w

\* garbage_collect, third block: the queued joints.
gc_joints(w) == [drop_joints(w, w.gc.joints) EXCEPT !.gc.joints = << >>]

\* ncollide3d::query::Proximity
Proximity == {"Intersecting", "WithinMargin", "Disjoint"}

\* MechanicalWorld::step as seen from the tables: the engine pops every pending
\* insertion and removal event, and from then on knows the colliders it was told of.
engine_step(w) ==
    LET known(i) == /\ w.colliders.items[i].occ
                    /\ InSeq(Key(i, w.colliders.items[i].gen), w.col_inserted)
        registered(entry) ==
            [entry EXCEPT !.val = Some([Unwrap(entry.val) EXCEPT !.registered = TRUE])]
    IN [w EXCEPT !.bodies_removed = << >>,
                 !.col_inserted = << >>,
                 !.col_removed = << >>,
                 !.j_inserted = << >>,
                 !.j_removed = << >>,
                 !.colliders.items =
                     [i \in DOMAIN w.colliders.items |->
                         IF known(i) THEN registered(w.colliders.items[i])
                         ELSE w.colliders.items[i]]]

\* MechanicalWorld::step puts bodies at rest to sleep: here the rigid bodies of `asleep`.
engine_sleep(w, asleep) ==
    [w EXCEPT !.bodies.items =
        [i \in DOMAIN w.bodies.items |->
            IF /\ w.bodies.items[i].occ
               /\ Key(i, w.bodies.items[i].gen) \in asleep
               /\ Unwrap(w.bodies.items[i].val).kind = "Rigid"
            THEN [w.bodies.items[i] EXCEPT
                     !.val = Some([Unwrap(w.bodies.items[i].val) EXCEPT !.active = FALSE])]
            ELSE w.bodies.items[i]]]

\* The pairs of colliders the engine computes a proximity for: two colliders it knows,
\* at least one of them a sensor (the pairs of solid colliders give contacts).
ProximityPairs(w) ==
    {p \in SUBSET LiveKeys(w.colliders) :
        /\ Cardinality(p) = 2
        /\ \E c \in p : Unwrap(Get(w.colliders, c)).sensor}

\* The status the engine holds for each pair when a pass begins: a pair it has not
\* seen before is disjoint, a pair with a removed collider is forgotten.
Tracked(w, prox) ==
    [p \in ProximityPairs(w) |-> IF p \in DOMAIN prox THEN prox[p] ELSE "Disjoint"]

\* GeometricalWorld::proximity_events: the transitions of one pass, at most one in this
\* model; its previous status is the one the engine held for the pair.
ProximityEvents(w, prox) ==
    LET all == [collider1 : LiveKeys(w.colliders), collider2 : LiveKeys(w.colliders),
                prev_status : Proximity, new_status : Proximity]
    IN {<< >>} \cup
       {<<e>> : e \in {x \in all : /\ {x.collider1, x.collider2} \in ProximityPairs(w)
                                   /\ x.prev_status =
                                          Tracked(w, prox)[{x.collider1, x.collider2}]}}

\* The status the engine holds for each pair when the pass is over.
ProximityAfter(w, prox, events) ==
    [p \in ProximityPairs(w) |->
        IF events # << >> /\ p = {events[1].collider1, events[1].collider2}
        THEN events[1].new_status
        ELSE Tracked(w, prox)[p]]

\* A variant the checks are tried against: the lists are not cleared.
clear_events_kept(w) == w

\* fetch_events, "Clear old events"
clear_events(w) ==
    LET cleared(entry) ==
            IF entry.occ /\ Unwrap(entry.val).kind = "Area"
            THEN [entry EXCEPT !.val = Some([Unwrap(entry.val) EXCEPT !.events = << >>])]
            ELSE entry
    IN [w EXCEPT !.bodies.items = [i \in DOMAIN w.bodies.items |-> cleared(w.bodies.items[i])]]

\* A variant the checks are tried against: every change that does not end intersecting
\* is an exit.
event_status_any_change(e) ==
    IF e.prev_status = e.new_status THEN "skip"
    ELSE IF e.new_status = "Intersecting" THEN "Enter" ELSE "Exit"

\* A variant the checks are tried against: the new status alone decides an enter.
event_status_by_new_status(e) ==
    IF e.new_status = "Intersecting" THEN "Enter"
    ELSE IF e.prev_status = "Intersecting" THEN "Exit" ELSE "skip"

\* fetch_events, the classification of one transition: "Enter", "Exit" or "skip".
event_status(e) ==
    IF e.prev_status = e.new_status THEN "skip"
    ELSE IF e.new_status = "Intersecting"
         THEN IF e.prev_status = "Intersecting" THEN "skip" ELSE "Enter"
         ELSE IF e.prev_status = "Intersecting" THEN "Exit" ELSE "skip"

\* A variant the checks are tried against: the first collider of the pair is taken to
\* be the area's.
fetch_event_area_first(w, e) ==
    IF event_status(e) = "skip" THEN w
    ELSE LET body_1_ud == Unwrap(Get(w.colliders, e.collider1))
             body_2_ud == Unwrap(Get(w.colliders, e.collider2))
             area == BodyOf(w, body_1_ud.store_key)
         IN IF area.kind = "Area"
            THEN SetBody(w, body_1_ud.store_key, "events",
                         Append(area.events,
                                [type |-> event_status(e), tag |-> body_2_ud.store_key,
                                 entity |-> body_2_ud.entity]))
            ELSE w

\* fetch_events, the body of the loop for one transition
fetch_event(w, e) ==
    IF event_status(e) = "skip" THEN w
    ELSE LET body_1_ud == Unwrap(Get(w.colliders, e.collider1))
             body_2_ud == Unwrap(Get(w.colliders, e.collider2))
             rigid_first == body_1_ud.object_type = "RigidBody"
             area_tag == IF rigid_first THEN body_2_ud.store_key ELSE body_1_ud.store_key
             body_key == IF rigid_first THEN body_1_ud.store_key ELSE body_2_ud.store_key
             body_entity == IF rigid_first THEN body_1_ud.entity ELSE body_2_ud.entity
             area == BodyOf(w, area_tag)
         IN IF area.kind = "Area"
            THEN SetBody(w, area_tag, "events",
                         Append(area.events,
                                [type |-> event_status(e), tag |-> body_key,
                                 entity |-> body_entity]))
            ELSE w

RECURSIVE fetch_each(_, _)
fetch_each(w, events) ==
    IF events = << >> THEN w ELSE fetch_each(fetch_event(w, Head(events)), Tail(events))

\* WorldNpServer::fetch_events
fetch_events(w, events) == fetch_each(clear_events(w), events)

\* AreaNpServer::overlap_events
overlap_events(w, area_key) ==
    IF Has(w.bodies, area_key)
    THEN IF BodyOf(w, area_key).kind = "Area" THEN BodyOf(w, area_key).events ELSE << >>
    ELSE << >>

(***************************************************************************)
(* SpecLock: the locks each operation takes, in the order its code takes   *)
(* them.  An operation is the sequence of steps it has left; a caller      *)
(* executes the head of its sequence when the lock it asks for is free.    *)
(* All body slots, the shape slot and the joint are live, and the          *)
(* collector's queues are empty.                                           *)
(***************************************************************************)
Threads == 1..LockThreads
BodySlots == 0..(LockBodies - 1)
ShapeSlots == {0}
Tables == {"gc", "mechanical_world", "geometrical_world", "bodies", "colliders",
           "joints", "force_generators", "shapes"}
Slots == ({"bodies"} \X BodySlots) \cup ({"shapes"} \X ShapeSlots) \cup {<<"joints", 0>>}

Do(k, on, i, v) == [k |-> k, on |-> on, i |-> i, v |-> v]
\* RwLock::read and RwLock::write of a table, and the end of the guard's scope
Read(table) == Do("read", table, 0, None)
Write(table) == Do("write", table, 0, None)
Unread(table) == Do("unread", table, 0, None)
Unwrite(table) == Do("unwrite", table, 0, None)
\* Storage::get of a slot (the StorageGuard), and the end of the guard's scope
Lock(table, i) == Do("lock", table, i, None)
Unlock(table, i) == Do("unlock", table, i, None)
\* a field written through a guard
Assign(field, i, v) == Do("assign", field, i, v)
\* code that takes no lock
Run(label) == Do("run", label, 0, None)
\* a condition on what the guards give access to
Branch(label) == Do("branch", label, 0, None)
\* the end of the operation: every guard still alive is dropped
Return == Do("return", "", 0, None)

Idle == [op |-> "none", body |-> 0, shape |-> None, todo |-> << >>]

NewJoint == [body_0 |-> None, body_1 |-> None, np_joint |-> FALSE]

LockInit ==
    /\ rwlock = [table \in Tables |-> [writer |-> {}, readers |-> {}]]
    /\ slot_mutex = [slot \in Slots |-> {}]
    /\ thread = [t \in Threads |-> Idle]
    /\ body_shape_key = [b \in BodySlots |-> None]
    /\ joint_slots = NewJoint
    /\ overlap_queue = "complete"

\* RwLock::read returns when no writer holds the lock
CanRead(table) == rwlock[table].writer = {}
\* RwLock::write returns when nobody holds the lock
CanWrite(table) == rwlock[table].writer = {} /\ rwlock[table].readers = {}
\* The C10 variant: one Mutex for all the slots of a table.
CanLockOneAtATime(slot) == \A other \in Slots : other[1] = slot[1] => slot_mutex[other] = {}
\* Mutex::lock of a slot returns when nobody is inside that slot's Mutex
CanLock(slot) == slot_mutex[slot] = {}

\* RBodyNpServer::set_shape, up to the comparison with the body's shape
set_shape_locks(body) == <<Read("bodies"), Lock("bodies", body), Branch("set_shape")>>

\* RBodyNpServer::set_shape, from the comparison on
set_shape_rest(body, shape, old) ==
    IF old = shape THEN <<Return>>
    ELSE <<Write("colliders"), Read("shapes")>>
         \o (IF IsSome(old)
             THEN <<Lock("shapes", Unwrap(old)), Unlock("shapes", Unwrap(old)),
                    Assign("shape_key", body, None)>>
             ELSE << >>)
         \o (IF IsSome(shape)
             THEN <<Lock("shapes", Unwrap(shape)), Assign("shape_key", body, shape)>>
             ELSE << >>)
         \o <<Return>>

\* RBodyNpServer::set_transform
set_transform_locks(body) ==
    <<Read("bodies"), Lock("bodies", body), Run("set_body_transform"), Return>>

\* ShapeNpServer::create_shape
create_shape_locks == <<Write("shapes"), Run("insert"), Return>>

\* ShapeNpServer::update_shape, up to the loop over the shape's bodies
update_shape_locks(shape) ==
    <<Read("bodies"), Write("colliders"), Read("shapes"), Lock("shapes", shape),
      Branch("update_shape")>>

\* ShapeNpServer::update_shape, the loop: one body guard at a time
RECURSIVE update_shape_rest(_, _)
update_shape_rest(shape, b) ==
    IF b = LockBodies THEN <<Return>>
    ELSE (IF body_shape_key[b] = Some(shape)
          THEN <<Lock("bodies", b), Unlock("bodies", b)>>
          ELSE << >>)
         \o update_shape_rest(shape, b + 1)

\* JointNpServer::update_internal_joint: what it does to the joint
update_internal_joint_slots(joint) ==
    IF joint.np_joint /\ (IsNone(joint.body_0) \/ IsNone(joint.body_1))
    THEN [joint EXCEPT !.np_joint = FALSE]
    ELSE joint

\* JointNpServer::update_internal_joint: the guards it takes
update_internal_joint_locks(joint) ==
    <<Lock("joints", 0)>>
    \o (IF ~joint.np_joint /\ IsSome(joint.body_0) /\ IsSome(joint.body_1)
        THEN <<Lock("bodies", Unwrap(joint.body_0)), Lock("bodies", Unwrap(joint.body_1)),
               Assign("np_joint", 0, Some(TRUE))>>
        ELSE << >>)
    \o <<Return>>

\* JointNpServer::insert_rigid_body, up to the test of the joint's slots
insert_rigid_body_locks == <<Write("joints"), Lock("joints", 0), Branch("insert_rigid_body")>>

\* JointNpServer::insert_rigid_body: the slot it fills
insert_rigid_body_slots(joint, body) ==
    IF IsNone(joint.body_0) THEN [joint EXCEPT !.body_0 = Some(body)]
    ELSE IF IsNone(joint.body_1) THEN [joint EXCEPT !.body_1 = Some(body)]
    ELSE joint

\* JointNpServer::insert_rigid_body, after the test
insert_rigid_body_rest(joint, body) ==
    IF IsSome(joint.body_0) /\ IsSome(joint.body_1) THEN <<Return>>
    ELSE <<Unlock("joints", 0), Read("bodies")>>
         \o update_internal_joint_locks(insert_rigid_body_slots(joint, body))

\* JointNpServer::remove_rigid_body, up to the joint's guard
remove_rigid_body_locks ==
    <<Write("joints"), Read("bodies"), Lock("joints", 0), Branch("remove_rigid_body")>>

\* JointNpServer::remove_rigid_body: the slot it empties
remove_rigid_body_slots(joint, body) ==
    IF joint.body_0 = Some(body) THEN [joint EXCEPT !.body_0 = None]
    ELSE IF joint.body_1 = Some(body) THEN [joint EXCEPT !.body_1 = None]
    ELSE joint

\* RBodyNpServer::active_body
active_body_locks(body) ==
    IF IsSome(body) THEN <<Lock("bodies", Unwrap(body)), Unlock("bodies", Unwrap(body))>>
    ELSE << >>

\* JointNpServer::remove_rigid_body, under the joint's guard and after it
remove_rigid_body_rest(joint, body) ==
    active_body_locks(joint.body_0) \o active_body_locks(joint.body_1)
    \o <<Unlock("joints", 0)>>
    \o update_internal_joint_locks(remove_rigid_body_slots(joint, body))

\* WorldNpServer::garbage_collect
garbage_collect_locks ==
    <<Write("gc"),
      Write("bodies"), Write("colliders"), Read("shapes"), Run("gc_bodies_and_areas"),
      Unread("shapes"), Unwrite("colliders"), Unwrite("bodies"),
      Write("shapes"), Run("gc_shapes"), Unwrite("shapes"),
      Write("joints"), Read("bodies"), Run("gc_joints"), Unread("bodies"), Unwrite("joints"),
      Unwrite("gc")>>

\* AreaNpServer::overlap_events
overlap_events_locks(area) ==
    <<Read("bodies"), Lock("bodies", area), Run("overlap_events"), Return>>

\* WorldNpServer::fetch_events, under the guards step holds: the areas' lists are
\* cleared, then the events of the pass are pushed one after the other.
fetch_events_locks == <<Run("clear_events"), Run("push_event"), Run("push_last_event")>>

\* The C9 variant: a pass that does not take the joint table.
step_pass_locks_without_joints ==
    <<Write("mechanical_world"), Write("geometrical_world"),
      Write("bodies"), Write("colliders"), Write("force_generators"),
      Run("integrate")>> \o fetch_events_locks \o <<Return>>

\* The C11 variant: the body table is handed back after the pass and only read-locked
\* while the events are translated.
step_pass_locks_sharing_bodies ==
    <<Write("mechanical_world"), Write("geometrical_world"),
      Write("bodies"), Write("colliders"), Write("joints"), Write("force_generators"),
      Run("integrate"), Unwrite("bodies"), Read("bodies")>>
    \o fetch_events_locks \o <<Return>>

\* A variant the checks are tried against: the pass takes the body table for reading.
step_pass_locks_reading_bodies ==
    <<Write("mechanical_world"), Write("geometrical_world"),
      Read("bodies"), Write("colliders"), Write("joints"), Write("force_generators"),
      Run("integrate")>> \o fetch_events_locks \o <<Return>>

\* The tables whose objects a piece of code reaches without their Mutex: the engine's
\* pass goes through the set traits of the four tables it is handed (unchecked_get,
\* unchecked_get_mut, iter, iter_mut), and fetch_events clears the areas' lists through
\* iter_mut of the body table.  Everything else goes through Storage::get.
Bypasses(label) ==
    CASE label = "integrate" -> {"bodies", "colliders", "joints", "force_generators"}
      [] label = "clear_events" -> {"bodies"}
      [] OTHER -> {}

\* WorldNpServer::step after garbage_collect
step_pass_locks ==
    <<Write("mechanical_world"), Write("geometrical_world"),
      Write("bodies"), Write("colliders"), Write("joints"), Write("force_generators"),
      Run("integrate")>> \o fetch_events_locks \o <<Return>>

\* WorldNpServer::step
step_locks == garbage_collect_locks \o step_pass_locks

(***************************************************************************)
(* SpecStorage: one Storage<T> driven by insert and remove.                *)
(***************************************************************************)
StValues == {1, 2}
StCapacities == {1, 2}
StGrowing == {1, 2}

StInit ==
    /\ st \in {NewStorage(c, g) : c \in StCapacities, g \in StGrowing}
    /\ issued = {}
    /\ removed = {}
    /\ last = NoOp
    /\ requested_attached = {}
    /\ WorldIs(NewWorld(1, 1, 1, 1))
    /\ prox_events = << >>
    /\ proximity = << >>
    /\ delivered = << >>
    /\ destroyed = {}
    /\ woken = {}
    /\ replaced = None
    /\ pc = "idle"
    /\ hung = FALSE
    /\ LockInit

StInsert(v) ==
    /\ st.generation + st.len < MaxInserts
    /\ st' = Insert(st, v)
    /\ issued' = issued \cup {InsertKey(st)}
    /\ last' = Call("insert", Some(InsertKey(st)), None, Some(v))
    /\ UNCHANGED <<removed, requested_attached, worldVars, lockVars>>

StRemove(k) ==
    /\ st' = Remove(st, k)
    /\ removed' = removed \cup {k}
    /\ last' = Call("remove", Some(k), None, Removed(st, k))
    /\ UNCHANGED <<issued, requested_attached, worldVars, lockVars>>

StNext ==
    \/ \E v \in StValues : StInsert(v)
    \/ \E k \in issued : StRemove(k)

SpecStorage == StInit /\ [][StNext]_vars

\* SpecPairs: one Storage<T> driven by insert and remove, and asked for two of its
\* objects at once with handles it gave out, by the body table or the collider table
\* that wraps it.
PairTables == {"bodies", "colliders"}

GetPairMut(table, handle1, handle2) ==
    /\ last' = Call(table, Some(handle1), Some(handle2),
                    Some(IF table = "bodies"
                         THEN BodyStorage_get_pair_mut(st, handle1, handle2)
                         ELSE ColliderStorage_get_pair_mut(st, handle1, handle2)))
    /\ UNCHANGED <<stVars, requested_attached, worldVars, lockVars>>

NextPairs ==
    \/ \E v \in StValues : StInsert(v)
    \/ \E k \in issued : StRemove(k)
    \/ \E table \in PairTables, handle1 \in issued, handle2 \in issued :
           GetPairMut(table, handle1, handle2)

SpecPairs == StInit /\ [][NextPairs]_vars

\* C2: once remove(h) was called on a key h that insert returned, get(h), has(h) and
\* unchecked_get(h) find nothing in every later state, whatever is inserted or removed
\* afterwards (also when h's slot is in use again), and a further remove(h) returns
\* None and leaves the table as it was.
C2_RemovedNeverResolves ==
    /\ [](\A k \in removed :
            /\ IsNone(Get(st, k))
            /\ ~Has(st, k)
            /\ IsNone(UncheckedGet(st, k)))
    /\ [][\A k \in removed :
            (last'.op = "remove" /\ last'.key = Some(k))
                => (last'.ret = None /\ st' = st)]_vars

\* A removed key whose slot holds a newer object, just after remove was called on it again.
C2_Witness ==
    \E k \in removed :
        /\ st.items[k.index].occ
        /\ st.items[k.index].gen # k.generation
        /\ last.op = "remove" /\ last.key = Some(k) /\ last.ret = None

(***************************************************************************)
(* Spec: the servers called one call at a time, and step in its five       *)
(* phases.                                                                 *)
(***************************************************************************)
Inserts(a) == a.generation + a.len

Within(w, max_colliders) ==
    /\ Inserts(w.bodies) + Inserts(w.shapes) + Inserts(w.joints) <= MaxObjects
    /\ Inserts(w.colliders) <= max_colliders
    /\ Len(w.j_inserted) <= MaxJointEvents
    /\ Len(w.watch_contacts) <= MaxWatched

Bounded(w) == Within(w, MaxColliders)

\* The tags a caller can hold of the table named: those the server gave out, whose
\* object is stored or was destroyed by the collector.
Tags(table) ==
    LiveKeys(CASE table = "bodies" -> bodies [] table = "shapes" -> shapes
                [] table = "joints" -> joints)
    \cup {d.key : d \in {x \in destroyed : x.table = table}}

\* Tags of the kind's type: one that resolves, resolves to an object of the kind.
KindTags(kind) ==
    {k \in Tags("bodies") : Has(bodies, k) => Unwrap(Get(bodies, k)).kind = kind}

ShapeArgs == {None} \cup {Some(k) : k \in Tags("shapes")}

Init ==
    /\ st = NewStorage(1, 1)
    /\ issued = {}
    /\ removed = {}
    /\ last = NoOp
    /\ requested_attached = {}
    /\ WorldIs(NewWorld(TableCap, TableCap, TableCap, TableCap))
    /\ prox_events = << >>
    /\ proximity = << >>
    /\ delivered = << >>
    /\ destroyed = {}
    /\ woken = {}
    /\ replaced = None
    /\ pc = "idle"
    /\ hung = FALSE
    /\ LockInit

\* The bodies that are asleep now and awake in w.
Woken(w) ==
    {k \in LiveKeys(bodies) \cap LiveKeys(w.bodies) :
        ~BodyOf(World, k).active /\ BodyOf(w, k).active}

\* The shape reference a set_shape call finds in its body (body.shape_key, read before
\* the comparison at the top of set_shape); None for every other call.
Replaced(call) ==
    IF call.op \in {"rbody_set_shape", "area_set_shape"}
       /\ IsSome(call.key) /\ Has(bodies, Unwrap(call.key))
    THEN BodyOf(World, Unwrap(call.key)).shape_key
    ELSE None

\* A call of a server by a caller: the stepping thread is outside step.  The
\* collider table has taken at most max_colliders inserts when the call returns.
ReturnsWithin(w, call, max_colliders) ==
    /\ pc = "idle"
    /\ ~hung
    /\ Within(w, max_colliders)
    /\ Commit(w)
    /\ last' = call
    /\ requested_attached' =
           IF call.op = "release_shape" /\ ShapeOf(World, Unwrap(call.key)).bodies # << >>
           THEN requested_attached \cup {Unwrap(call.key)}
           ELSE requested_attached
    /\ woken' = Woken(w)
    /\ replaced' = Replaced(call)
    /\ UNCHANGED <<stVars, prox_events, proximity, delivered, destroyed, pc, hung,
                   lockVars>>

Returns(w, call) == ReturnsWithin(w, call, MaxColliders)

\* RBodyNpServer::create
CreateRigidBody(count) ==
    Returns(create_rigid_body(World, count),
            Call("create_rigid_body", None, Some(count), Some(InsertKey(bodies))))

\* RBodyNpServer::set_contacts_to_report
SetContactsToReport(body_tag, count) ==
    Returns(set_contacts_to_report(World, body_tag, count),
            Call("set_contacts_to_report", Some(body_tag), Some(count), None))

\* RBodyNpServer::contact_events
ContactEvents(body_tag) ==
    Returns(World, Call("contact_events", Some(body_tag), None,
                        Some(contact_events(World, body_tag))))

\* AreaNpServer::create
CreateArea ==
    Returns([World EXCEPT !.bodies = Insert(@, new_area)],
            Call("create_area", None, None, Some(InsertKey(bodies))))

\* ShapeNpServer::create_shape
CreateShape(concave) ==
    Returns([World EXCEPT !.shapes = Insert(@, new_shape(concave))],
            Call("create_shape", None, None, Some(InsertKey(shapes))))

\* JointNpServer::create_joint
CreateJoint(initial_position) ==
    Returns([World EXCEPT !.joints = Insert(@, new_joint(initial_position))],
            Call("create_joint", None, Some(initial_position), Some(InsertKey(joints))))

\* RBodyNpServer::set_transform
SetTransform(body_tag, transf) ==
    Returns(set_transform(World, body_tag, transf),
            Call("set_transform", Some(body_tag), Some(transf), None))

\* RBodyNpServer::set_entity
RBodySetEntity(body_tag, entity) ==
    Returns(RBody_set_entity(World, body_tag, entity),
            Call("rbody_set_entity", Some(body_tag), entity, None))

\* AreaNpServer::set_entity
AreaSetEntity(area_tag, entity) ==
    Returns(Area_set_entity(World, area_tag, entity),
            Call("area_set_entity", Some(area_tag), entity, None))

\* RBodyNpServer::set_shape
RBodySetShape(body_tag, shape_tag) ==
    Returns(RBody_set_shape(World, body_tag, shape_tag),
            Call("rbody_set_shape", Some(body_tag), shape_tag, None))

\* AreaNpServer::set_shape
AreaSetShape(area_tag, shape_tag) ==
    Returns(Area_set_shape(World, area_tag, shape_tag),
            Call("area_set_shape", Some(area_tag), shape_tag, None))

\* ShapeNpServer::update_shape
UpdateShape(shape_tag, concave) ==
    Returns(update_shape(World, shape_tag, concave),
            Call("update_shape", Some(shape_tag), None, None))

\* JointNpServer::insert_rigid_body; the call does not return when it locks a body twice.
InsertRigidBody(joint_tag, body_tag) ==
    IF ~insert_rigid_body_rejected(World, joint_tag)
       /\ update_internal_joint_relocks(
              insert_rigid_body_slot(World, joint_tag, body_tag), joint_tag)
    THEN /\ pc = "idle"
         /\ ~hung
         /\ Commit(insert_rigid_body_slot(World, joint_tag, body_tag))
         /\ hung' = TRUE
         /\ last' = Call("insert_rigid_body", Some(joint_tag), Some(body_tag), None)
         /\ woken' = Woken(insert_rigid_body_slot(World, joint_tag, body_tag))
         /\ replaced' = None
         /\ UNCHANGED <<stVars, prox_events, proximity, delivered, destroyed, pc,
                         requested_attached, lockVars>>
    ELSE Returns(insert_rigid_body(World, joint_tag, body_tag),
                 Call("insert_rigid_body", Some(joint_tag), Some(body_tag), None))

\* JointNpServer::remove_rigid_body
RemoveRigidBody(joint_tag, body_tag) ==
    Returns(remove_rigid_body(World, joint_tag, body_tag),
            Call("remove_rigid_body", Some(joint_tag), Some(body_tag), None))

\* AreaNpServer::overlap_events
OverlapEvents(area_tag) ==
    Returns(World, Call("overlap_events", Some(area_tag), None,
                        Some(overlap_events(World, area_tag))))

\* The caller releases the PhysicsHandle of a rigid body: its tag is queued.
ReleaseRigidBody(tag) ==
    /\ Has(bodies, tag) /\ ~InSeq(tag, gc.bodies)
    /\ Returns([World EXCEPT !.gc.bodies = Append(@, tag)],
               Call("release_rigid_body", Some(tag), None, None))

\* The caller releases the PhysicsHandle of an area.
ReleaseArea(tag) ==
    /\ Has(bodies, tag) /\ ~InSeq(tag, gc.areas)
    /\ Returns([World EXCEPT !.gc.areas = Append(@, tag)],
               Call("release_area", Some(tag), None, None))

\* The caller releases the PhysicsHandle of a shape.
ReleaseShape(tag) ==
    /\ Has(shapes, tag) /\ ~InSeq(tag, gc.shapes)
    /\ Returns([World EXCEPT !.gc.shapes = Append(@, tag)],
               Call("release_shape", Some(tag), None, None))

\* The caller releases the PhysicsHandle of a joint.
ReleaseJoint(tag) ==
    /\ Has(joints, tag) /\ ~InSeq(tag, gc.joints)
    /\ Returns([World EXCEPT !.gc.joints = Append(@, tag)],
               Call("release_joint", Some(tag), None, None))

\* The events found in the areas' lists, with the pair of colliders they are about.
Delivery(w, e) ==
    {[pair |-> {e.collider1, e.collider2}, type |-> ev.type] :
        ev \in UNION {{BodyOf(w, a).events[i] : i \in DOMAIN BodyOf(w, a).events} :
                         a \in {k \in LiveKeys(w.bodies) : BodyOf(w, k).kind = "Area"}}}

\* The history of deliveries after fetch_events has left the tables as w.
DeliveredAfter(w, events, deliv) ==
    IF events # << >> /\ Delivery(w, events[1]) # {}
    THEN LET d == CHOOSE x \in Delivery(w, events[1]) : TRUE
         IN [p \in DOMAIN deliv \cup {d.pair} |-> IF p = d.pair THEN d.type ELSE deliv[p]]
    ELSE deliv

\* The (table, key) pairs that resolve in the tables before and not in those of w.
Gone(w) ==
    {[table |-> "bodies", key |-> k] : k \in LiveKeys(bodies) \ LiveKeys(w.bodies)}
    \cup {[table |-> "shapes", key |-> k] : k \in LiveKeys(shapes) \ LiveKeys(w.shapes)}
    \cup {[table |-> "joints", key |-> k] : k \in LiveKeys(joints) \ LiveKeys(w.joints)}

\* One phase of WorldNpServer::step, from position `from` to position `to`.
StepPhase(from, to, w, events, prox, deliv) ==
    /\ pc = from
    /\ ~hung
    /\ Commit(w)
    /\ prox_events' = events
    /\ proximity' = prox
    /\ delivered' = deliv
    /\ destroyed' = destroyed \cup Gone(w)
    /\ woken' = Woken(w)
    /\ replaced' = None
    /\ pc' = to
    /\ last' = Call("step", None, None, None)
    /\ requested_attached' = {k \in requested_attached : Has(w.shapes, k)}
    /\ UNCHANGED <<stVars, hung, lockVars>>

\* step -> garbage_collect, bodies and areas
GcBodiesAndAreas ==
    StepPhase("idle", "gc_shapes", gc_bodies_and_areas(World), prox_events, proximity,
              delivered)

\* step -> garbage_collect, shapes
GcShapes ==
    StepPhase("gc_shapes", "gc_joints", gc_shapes(World), prox_events, proximity, delivered)

\* step -> garbage_collect, joints
GcJoints ==
    StepPhase("gc_joints", "integrate", gc_joints(World), prox_events, proximity, delivered)

\* step -> MechanicalWorld::step
Integrate(asleep) ==
    \E events \in ProximityEvents(engine_step(World), proximity) :
        StepPhase("integrate", "fetch_events", engine_sleep(engine_step(World), asleep),
                  events, ProximityAfter(engine_step(World), proximity, events),
                  [p \in DOMAIN delivered \cap ProximityPairs(engine_step(World)) |->
                      delivered[p]])

\* step -> fetch_events
FetchEvents ==
    StepPhase("fetch_events", "idle", fetch_events(World, prox_events), << >>, proximity,
              DeliveredAfter(fetch_events(World, prox_events), prox_events, delivered))

Next ==
    \/ CreateRigidBody(0)
    \/ CreateArea
    \/ \E concave \in BOOLEAN : CreateShape(concave)
    \/ CreateJoint(IsoIdentity)
    \/ \E b \in KindTags("Rigid"), s \in ShapeArgs : RBodySetShape(b, s)
    \/ \E a \in KindTags("Area"), s \in ShapeArgs : AreaSetShape(a, s)
    \/ \E s \in Tags("shapes"), concave \in BOOLEAN : UpdateShape(s, concave)
    \/ \E j \in Tags("joints"), b \in KindTags("Rigid") : InsertRigidBody(j, b)
    \/ \E j \in Tags("joints"), b \in KindTags("Rigid") : RemoveRigidBody(j, b)
    \/ \E b \in KindTags("Rigid") : ReleaseRigidBody(b)
    \/ \E a \in KindTags("Area") : ReleaseArea(a)
    \/ \E s \in Tags("shapes") : ReleaseShape(s)
    \/ \E j \in Tags("joints") : ReleaseJoint(j)
    \/ GcBodiesAndAreas
    \/ GcShapes
    \/ GcJoints
    \/ Integrate({})
    \/ FetchEvents

Spec == Init /\ [][Next]_vars

(***************************************************************************)
(* SpecShape: bodies, areas and shapes only.  SpecJoint: rigid bodies and   *)
(* joints only.                                                            *)
(***************************************************************************)
NextShape ==
    \/ CreateRigidBody(0)
    \/ CreateArea
    \/ \E concave \in BOOLEAN : CreateShape(concave)
    \/ \E b \in KindTags("Rigid"), s \in ShapeArgs : RBodySetShape(b, s)
    \/ \E a \in KindTags("Area"), s \in ShapeArgs : AreaSetShape(a, s)
    \/ \E s \in Tags("shapes"), concave \in BOOLEAN : UpdateShape(s, concave)
    \/ \E b \in KindTags("Rigid") : ReleaseRigidBody(b)
    \/ \E a \in KindTags("Area") : ReleaseArea(a)
    \/ \E s \in Tags("shapes") : ReleaseShape(s)
    \/ GcBodiesAndAreas
    \/ GcShapes
    \/ GcJoints
    \/ Integrate({})
    \/ FetchEvents

SpecShape == Init /\ [][NextShape]_vars

\* SpecUpdate: two bodies attached to one shape, the shape updated, and the steps;
\* the collider table takes up to MaxReplaced inserts.
\* RBodyNpServer::set_shape with a shape
AttachRigidBody(body_tag, shape_tag) ==
    ReturnsWithin(RBody_set_shape(World, body_tag, Some(shape_tag)),
                  Call("rbody_set_shape", Some(body_tag), Some(shape_tag), None),
                  MaxReplaced)

\* AreaNpServer::set_shape with a shape
AttachArea(area_tag, shape_tag) ==
    ReturnsWithin(Area_set_shape(World, area_tag, Some(shape_tag)),
                  Call("area_set_shape", Some(area_tag), Some(shape_tag), None),
                  MaxReplaced)

\* ShapeNpServer::update_shape
UpdateAttached(shape_tag, concave) ==
    ReturnsWithin(update_shape(World, shape_tag, concave),
                  Call("update_shape", Some(shape_tag), None, None),
                  MaxReplaced)

NextUpdate ==
    \/ CreateRigidBody(0)
    \/ CreateArea
    \/ CreateShape(FALSE)
    \/ \E b \in KindTags("Rigid"), s \in Tags("shapes") : AttachRigidBody(b, s)
    \/ \E a \in KindTags("Area"), s \in Tags("shapes") : AttachArea(a, s)
    \/ \E s \in Tags("shapes"), concave \in BOOLEAN : UpdateAttached(s, concave)
    \/ GcBodiesAndAreas
    \/ GcShapes
    \/ GcJoints
    \/ Integrate({})
    \/ FetchEvents

SpecUpdate == Init /\ [][NextUpdate]_vars

\* SpecEvents: bodies, areas and shapes, and the areas' event lists polled.
NextEvents ==
    \/ NextShape
    \/ \E a \in KindTags("Area") : OverlapEvents(a)

SpecEvents == Init /\ [][NextEvents]_vars

NextJoint ==
    \/ CreateRigidBody(0)
    \/ CreateJoint(IsoIdentity)
    \/ \E j \in Tags("joints"), b \in KindTags("Rigid") : InsertRigidBody(j, b)
    \/ \E j \in Tags("joints"), b \in KindTags("Rigid") : RemoveRigidBody(j, b)
    \/ \E b \in KindTags("Rigid") : ReleaseRigidBody(b)
    \/ \E j \in Tags("joints") : ReleaseJoint(j)
    \/ GcBodiesAndAreas
    \/ GcShapes
    \/ GcJoints
    \/ \E asleep \in SUBSET LiveKeys(bodies) : Integrate(asleep)
    \/ FetchEvents

SpecJoint == Init /\ [][NextJoint]_vars

\* SpecAnchors: rigid bodies that are moved, and joints placed anywhere.
NextAnchors ==
    \/ CreateRigidBody(0)
    \/ \E initial_position \in Isometries : CreateJoint(initial_position)
    \/ \E b \in KindTags("Rigid"), transf \in Isometries : SetTransform(b, transf)
    \/ \E j \in Tags("joints"), b \in KindTags("Rigid") : InsertRigidBody(j, b)
    \/ \E j \in Tags("joints"), b \in KindTags("Rigid") : RemoveRigidBody(j, b)

SpecAnchors == Init /\ [][NextAnchors]_vars

\* SpecEntities: bodies and areas that are given entities and shapes, and the steps
\* that deliver the events of their overlaps.
Entities == {None} \cup {Some(e) : e \in 1..MaxEntity}

NextEntities ==
    \/ CreateRigidBody(0)
    \/ CreateArea
    \/ CreateShape(FALSE)
    \/ \E b \in KindTags("Rigid"), s \in ShapeArgs : RBodySetShape(b, s)
    \/ \E a \in KindTags("Area"), s \in ShapeArgs : AreaSetShape(a, s)
    \/ \E b \in KindTags("Rigid"), entity \in Entities : RBodySetEntity(b, entity)
    \/ \E a \in KindTags("Area"), entity \in Entities : AreaSetEntity(a, entity)
    \/ GcBodiesAndAreas
    \/ GcShapes
    \/ GcJoints
    \/ Integrate({})
    \/ FetchEvents

SpecEntities == Init /\ [][NextEntities]_vars

\* SpecSideTable: as SpecEntities, with shapes that are updated and with set_entity of
\* either server called on every body tag, of its own kind or not.
NextSideTable ==
    \/ CreateRigidBody(0)
    \/ CreateArea
    \/ CreateShape(FALSE)
    \/ \E b \in KindTags("Rigid"), s \in ShapeArgs : RBodySetShape(b, s)
    \/ \E a \in KindTags("Area"), s \in ShapeArgs : AreaSetShape(a, s)
    \/ \E s \in Tags("shapes") : UpdateShape(s, FALSE)
    \/ \E b \in Tags("bodies"), entity \in Entities : RBodySetEntity(b, entity)
    \/ \E a \in Tags("bodies"), entity \in Entities : AreaSetEntity(a, entity)
    \/ GcBodiesAndAreas
    \/ GcShapes
    \/ GcJoints
    \/ Integrate({})
    \/ FetchEvents

SpecSideTable == Init /\ [][NextSideTable]_vars

\* SpecContacts: rigid bodies and areas, their contact counts and the watch-list.
ContactCounts == 0..MaxContacts

NextContacts ==
    \/ \E count \in ContactCounts : CreateRigidBody(count)
    \/ CreateArea
    \/ \E b \in Tags("bodies"), count \in ContactCounts : SetContactsToReport(b, count)
    \/ \E b \in Tags("bodies") : ContactEvents(b)
    \/ \E b \in KindTags("Rigid") : ReleaseRigidBody(b)
    \/ \E a \in KindTags("Area") : ReleaseArea(a)
    \/ GcBodiesAndAreas
    \/ GcShapes
    \/ GcJoints
    \/ Integrate({})
    \/ FetchEvents

SpecContacts == Init /\ [][NextContacts]_vars

(***************************************************************************)
(* conversors.rs, opaque_conversors!: the tag of a kind is an enum value;  *)
(* the servers make it as UsizeU64(index, generation).  SpecCodec converts *)
(* tags and keys of the four kinds.                                        *)
(***************************************************************************)
TagTypes ==
    {"PhysicsRigidBodyTag", "PhysicsAreaTag", "PhysicsShapeTag", "PhysicsJointTag"}

\* $t::new_usizeu64
new_usizeu64(t, a, b) == [type |-> t, variant |-> "UsizeU64", a |-> a, b |-> b]

\* A tag of a variant the servers never make.
OtherTag(t) == [type |-> t, variant |-> "Other", a |-> 0, b |-> 0]

\* A variant the checks are tried against: the generation is not carried over.
opaque_conversors_to_index_only(tag) ==
    IF tag.variant = "UsizeU64" THEN Some(Key(tag.a, 0)) ELSE None

\* $to(tag): Some(key), or None for the panic!() of the other variants
opaque_conversors_to(tag) ==
    IF tag.variant = "UsizeU64" THEN Some(Key(tag.a, tag.b)) ELSE None

\* $from(key)
opaque_conversors_from(t, key) == new_usizeu64(t, key.index, key.generation)

CodecKeys == {Key(i, g) : i \in 0..MaxTagIndex, g \in 0..MaxTagGeneration}
CodecTags(t) == {opaque_conversors_from(t, k) : k \in CodecKeys} \cup {OtherTag(t)}

\* rigid_tag_to_store_key, area_tag_to_store_key, shape_tag_to_store_key,
\* joint_tag_to_store_key
TagToStoreKey(tag) ==
    Returns(World, Call("tag_to_store_key", None, Some(tag), opaque_conversors_to(tag)))

\* store_key_to_rigid_tag, store_key_to_area_tag, store_key_to_shape_tag,
\* store_key_to_joint_tag
StoreKeyToTag(t, key) ==
    Returns(World, Call("store_key_to_tag", Some(key), Some(t),
                        Some(opaque_conversors_from(t, key))))

NextCodec ==
    \/ \E t \in TagTypes : \E tag \in CodecTags(t) : TagToStoreKey(tag)
    \/ \E t \in TagTypes, key \in CodecKeys : StoreKeyToTag(t, key)

SpecCodec == Init /\ [][NextCodec]_vars

\* C1: no step of the program takes a shape out of the shape table while the shape's
\* attached-body set is non-empty; in particular the collector's drop_shape leaves a
\* queued shape in the table as long as a body or an area is attached to it.
C1_AttachedShapeStays ==
    [][\A k \in LiveKeys(shapes) :
          ShapeOf(World, k).bodies # << >> => Has(shapes', k)]_vars

\* C7: at the collector's shapes phase, a queued shape whose handle was released while
\* it was attached and whose attached-body set is empty by now is taken out of the
\* shape table.
C7_DetachedShapeRemoved ==
    [][(pc = "gc_shapes" /\ pc' = "gc_joints") =>
          \A k \in requested_attached :
              (InSeq(k, gc.shapes) /\ Has(shapes, k) /\ ShapeOf(World, k).bodies = << >>)
                  => ~Has(shapes', k)]_vars

ReleaseQueue ==
    [release_rigid_body |-> "bodies", release_area |-> "areas",
     release_shape |-> "shapes", release_joint |-> "joints"]

\* C3: a call made between two steps takes no body, area, shape or joint out of its
\* table (every key that resolved before the call resolves after it), and the release
\* of a handle changes nothing but the collector's queue of that kind, to which it
\* appends the tag.
C3_DestructionDeferred ==
    [][(pc = "idle" /\ pc' = "idle") =>
          /\ LiveKeys(bodies) \subseteq LiveKeys(bodies')
          /\ LiveKeys(shapes) \subseteq LiveKeys(shapes')
          /\ LiveKeys(joints) \subseteq LiveKeys(joints')
          /\ last'.op \in DOMAIN ReleaseQueue =>
                /\ <<bodies', colliders', shapes', joints'>>
                       = <<bodies, colliders, shapes, joints>>
                /\ gc' = [gc EXCEPT ![ReleaseQueue[last'.op]] =
                                        Append(@, Unwrap(last'.key))]]_vars

\* Between two steps: a body and a shape are both queued for destruction and both still
\* resolve, the shape still attached to the body, after a later call has returned.
C3_Witness ==
    /\ pc = "idle"
    /\ last.op \notin DOMAIN ReleaseQueue
    /\ \E b \in LiveKeys(bodies), s \in LiveKeys(shapes) :
          /\ InSeq(b, gc.bodies) \/ InSeq(b, gc.areas)
          /\ InSeq(s, gc.shapes)
          /\ BodyOf(World, b).shape_key = Some(s)

Fresh(joint) == IsNone(joint.body_0) /\ IsNone(joint.body_1) /\ IsNone(joint.np_joint)
HalfFirst(joint, b) == joint.body_0 = Some(b) /\ IsNone(joint.body_1) /\ IsNone(joint.np_joint)
HalfSecond(joint, b) == IsNone(joint.body_0) /\ joint.body_1 = Some(b) /\ IsNone(joint.np_joint)
Materialized(joint, b0, b1) ==
    /\ joint.body_0 = Some(b0)
    /\ joint.body_1 = Some(b1)
    /\ IsSome(joint.np_joint)
    /\ Unwrap(joint.np_joint).body_0 = b0
    /\ Unwrap(joint.np_joint).body_1 = b1

\* C5: for a stored joint j and stored bodies b and c, c different from b:
\* insert_rigid_body(j, b) on a fresh joint fills the first slot only and creates no
\* constraint; insert_rigid_body(j, c) on the joint that holds b alone creates the
\* constraint and queues exactly one insertion event; remove_rigid_body of b or of c on
\* the joint holding both destroys the constraint, creates none, and leaves the other
\* body in its slot; remove_rigid_body of the body a joint holds alone leaves the joint
\* fresh.
C5_JointRoundTrip ==
    [][\A j \in LiveKeys(joints), b \in LiveKeys(bodies) :
        \A c \in LiveKeys(bodies) \ {b} :
          LET joint == JointOf(World, j)
              after == Unwrap(Get(joints', j))
              inserted(x) == last'.op = "insert_rigid_body" /\ last'.key = Some(j)
                             /\ last'.arg = Some(x)
              removed_body(x) == last'.op = "remove_rigid_body" /\ last'.key = Some(j)
                                 /\ last'.arg = Some(x)
          IN /\ (inserted(b) /\ Fresh(joint)) =>
                   /\ HalfFirst(after, b)
                   /\ j_inserted' = j_inserted /\ j_removed' = j_removed
             /\ (inserted(c) /\ HalfFirst(joint, b)) =>
                   /\ Materialized(after, b, c)
                   /\ j_inserted' = Append(j_inserted, JointEvent(j, Unwrap(after.np_joint)))
                   /\ j_removed' = j_removed
                   /\ ~hung'
             /\ (removed_body(b) /\ Materialized(joint, b, c)) =>
                   /\ HalfSecond(after, c)
                   /\ j_inserted' = j_inserted
             /\ (removed_body(c) /\ Materialized(joint, b, c)) =>
                   /\ HalfFirst(after, b)
                   /\ j_inserted' = j_inserted
             /\ (removed_body(b) /\ (HalfFirst(joint, b) \/ HalfSecond(joint, b))) =>
                   /\ Fresh(after)
                   /\ j_inserted' = j_inserted /\ j_removed' = j_removed]_vars

\* The end of a round trip: the joint is fresh again after the removal of its last
\* body, and the insertion event of the constraint it had is still pending.
C5_Witness ==
    \E j \in LiveKeys(joints) :
        /\ last.op = "remove_rigid_body" /\ last.key = Some(j)
        /\ Fresh(JointOf(World, j))
        /\ Len(j_inserted) = 1
        /\ j_inserted[1].key = j
        /\ IsSome(last.arg) /\ Unwrap(last.arg) \in {j_inserted[1].body_0, j_inserted[1].body_1}

\* C6: insert_rigid_body on a stored joint that holds a body in each of its two slots
\* returns with the joint table (both slots and the constraint of every joint), the
\* pending insertion and removal events, and the body table all as they were.
C6_FullJointRejects ==
    [][\A j \in LiveKeys(joints) :
          (/\ last'.op = "insert_rigid_body"
           /\ last'.key = Some(j)
           /\ IsSome(JointOf(World, j).body_0)
           /\ IsSome(JointOf(World, j).body_1)) =>
              /\ joints' = joints
              /\ j_inserted' = j_inserted
              /\ j_removed' = j_removed
              /\ bodies' = bodies
              /\ ~hung']_vars

\* insert_rigid_body has just returned from a joint that holds two different bodies
\* and a constraint.
C6_Witness ==
    \E j \in LiveKeys(joints) :
        /\ last.op = "insert_rigid_body" /\ last.key = Some(j)
        /\ IsSome(JointOf(World, j).np_joint)
        /\ IsSome(JointOf(World, j).body_0)
        /\ IsSome(JointOf(World, j).body_1)
        /\ JointOf(World, j).body_0 # JointOf(World, j).body_1
        /\ j_inserted = << >>

\* The removal of every queued shape that still resolves has been attempted.
ShapesAttempted ==
    \A i \in DOMAIN gc.shapes :
        Has(shapes, gc.shapes[i]) => ShapeOf(World, gc.shapes[i]).marked_for_drop

\* The engine has popped every pending insertion and removal event.
EnginePopped ==
    /\ bodies_removed = << >>
    /\ col_inserted = << >> /\ col_removed = << >>
    /\ j_inserted = << >> /\ j_removed = << >>

AreaEvents(bs) == [k \in {x \in LiveKeys(bs) : Unwrap(Get(bs, x)).kind = "Area"} |->
                      Unwrap(Get(bs, k)).events]

\* C8: inside step the position only moves bodies-and-areas -> shapes -> joints ->
\* integration pass -> event queues -> out; when the shapes phase begins no body or
\* area is queued any more and no shape has been touched by the collector; when the
\* joints phase begins every queued shape has been attempted and no joint dropped; when
\* the pass begins no joint is queued and the engine has popped nothing yet; when the
\* event queues are filled the engine has popped all its pending events, and only then
\* do the areas' event queues change.
C8_PhasesInOrder ==
    /\ [][pc' # pc => <<pc, pc'>> \in {<<"idle", "gc_shapes">>, <<"gc_shapes", "gc_joints">>,
                                       <<"gc_joints", "integrate">>,
                                       <<"integrate", "fetch_events">>,
                                       <<"fetch_events", "idle">>}]_vars
    /\ [](pc \in {"gc_shapes", "gc_joints", "integrate"} =>
             gc.bodies = << >> /\ gc.areas = << >>)
    /\ [](pc \in {"gc_joints", "integrate"} => ShapesAttempted)
    /\ [](pc = "integrate" => gc.joints = << >>)
    /\ [](pc = "fetch_events" => EnginePopped)
    /\ [][(pc = "idle" /\ pc' = "gc_shapes") =>
             /\ LiveKeys(shapes') = LiveKeys(shapes)
             /\ \A k \in LiveKeys(shapes) :
                   ShapeOf(World, k).marked_for_drop
                       = Unwrap(Get(shapes', k)).marked_for_drop
             /\ joints' = joints /\ gc'.shapes = gc.shapes /\ gc'.joints = gc.joints]_vars
    /\ [][(pc = "gc_shapes" /\ pc' = "gc_joints") =>
             /\ bodies' = bodies /\ colliders' = colliders
             /\ joints' = joints /\ gc'.joints = gc.joints]_vars
    /\ [][(pc = "gc_joints" /\ pc' = "integrate") =>
             /\ shapes' = shapes /\ colliders' = colliders
             /\ LiveKeys(bodies') = LiveKeys(bodies)]_vars
    /\ [][(pc \in {"idle", "gc_shapes", "gc_joints"} /\ pc' # pc) =>
             /\ Len(bodies_removed') >= Len(bodies_removed)
             /\ Len(col_removed') >= Len(col_removed)
             /\ Len(j_removed') >= Len(j_removed)
             /\ col_inserted' = col_inserted /\ j_inserted' = j_inserted
             /\ AreaEvents(bodies') = [k \in DOMAIN AreaEvents(bodies') |->
                                          AreaEvents(bodies)[k]]]_vars
    /\ [][(pc = "integrate" /\ pc' = "fetch_events") =>
             /\ bodies' = bodies /\ shapes' = shapes /\ joints' = joints
             /\ gc' = gc]_vars
    /\ [][(pc = "fetch_events" /\ pc' = "idle") =>
             /\ bodies' = fetch_events(World, prox_events).bodies
             /\ colliders' = colliders /\ shapes' = shapes /\ joints' = joints
             /\ gc' = gc]_vars

\* The collector is done and the pass is about to run: a body was dropped in this step
\* and the removal of a queued shape was attempted.
C8_Witness ==
    /\ pc = "integrate"
    /\ bodies_removed # << >>
    /\ gc.shapes # << >>

(***************************************************************************)
(* SpecLock: concurrent callers, one step of one caller at a time.         *)
(***************************************************************************)
InitLock ==
    /\ st = NewStorage(1, 1)
    /\ issued = {}
    /\ removed = {}
    /\ last = NoOp
    /\ requested_attached = {}
    /\ WorldIs(NewWorld(1, 1, 1, 1))
    /\ prox_events = << >>
    /\ proximity = << >>
    /\ delivered = << >>
    /\ destroyed = {}
    /\ woken = {}
    /\ replaced = None
    /\ pc = "idle"
    /\ hung = FALSE
    /\ LockInit

notLockVars == <<stVars, last, requested_attached, worldVars>>

\* A caller enters an operation.
Enter(t, op, body, shape, todo) ==
    /\ thread[t] = Idle
    /\ thread' = [thread EXCEPT ![t] = [op |-> op, body |-> body, shape |-> shape,
                                        todo |-> todo]]
    /\ UNCHANGED <<rwlock, slot_mutex, body_shape_key, joint_slots, overlap_queue, notLockVars>>

CallSetShape(t, body, shape) == Enter(t, "set_shape", body, shape, set_shape_locks(body))
CallSetTransform(t, body) == Enter(t, "set_transform", body, None, set_transform_locks(body))
CallCreateShape(t) == Enter(t, "create_shape", 0, None, create_shape_locks)
CallUpdateShape(t, shape) ==
    Enter(t, "update_shape", 0, Some(shape), update_shape_locks(shape))
CallInsertRigidBody(t, body) ==
    Enter(t, "insert_rigid_body", body, None, insert_rigid_body_locks)
CallRemoveRigidBody(t, body) ==
    Enter(t, "remove_rigid_body", body, None, remove_rigid_body_locks)
CallStep(t) == Enter(t, "step", 0, None, step_locks)
CallOverlapEvents(t, area) ==
    Enter(t, "overlap_events", area, None, overlap_events_locks(area))

\* The step the caller is at.
At(t, k) == thread[t].todo # << >> /\ Head(thread[t].todo).k = k
Todo(t) == Head(thread[t].todo)
Advance(t) == thread' = [thread EXCEPT ![t].todo = Tail(@)]

AcquireRead(t) ==
    /\ At(t, "read")
    /\ CanRead(Todo(t).on)
    /\ rwlock' = [rwlock EXCEPT ![Todo(t).on].readers = @ \cup {t}]
    /\ Advance(t)
    /\ UNCHANGED <<slot_mutex, body_shape_key, joint_slots, overlap_queue, notLockVars>>

AcquireWrite(t) ==
    /\ At(t, "write")
    /\ CanWrite(Todo(t).on)
    /\ rwlock' = [rwlock EXCEPT ![Todo(t).on].writer = @ \cup {t}]
    /\ Advance(t)
    /\ UNCHANGED <<slot_mutex, body_shape_key, joint_slots, overlap_queue, notLockVars>>

ReleaseRead(t) ==
    /\ At(t, "unread")
    /\ rwlock' = [rwlock EXCEPT ![Todo(t).on].readers = @ \ {t}]
    /\ Advance(t)
    /\ UNCHANGED <<slot_mutex, body_shape_key, joint_slots, overlap_queue, notLockVars>>

ReleaseWrite(t) ==
    /\ At(t, "unwrite")
    /\ rwlock' = [rwlock EXCEPT ![Todo(t).on].writer = @ \ {t}]
    /\ Advance(t)
    /\ UNCHANGED <<slot_mutex, body_shape_key, joint_slots, overlap_queue, notLockVars>>

LockSlot(t) ==
    /\ At(t, "lock")
    /\ CanLock(<<Todo(t).on, Todo(t).i>>)
    /\ slot_mutex' = [slot_mutex EXCEPT ![<<Todo(t).on, Todo(t).i>>] = @ \cup {t}]
    /\ Advance(t)
    /\ UNCHANGED <<rwlock, body_shape_key, joint_slots, overlap_queue, notLockVars>>

UnlockSlot(t) ==
    /\ At(t, "unlock")
    /\ slot_mutex' = [slot_mutex EXCEPT ![<<Todo(t).on, Todo(t).i>>] = @ \ {t}]
    /\ Advance(t)
    /\ UNCHANGED <<rwlock, body_shape_key, joint_slots, overlap_queue, notLockVars>>

AssignField(t) ==
    /\ At(t, "assign")
    /\ IF Todo(t).on = "shape_key"
       THEN /\ body_shape_key' = [body_shape_key EXCEPT ![Todo(t).i] = Todo(t).v]
            /\ UNCHANGED joint_slots
       ELSE /\ joint_slots' = [joint_slots EXCEPT !.np_joint = TRUE]
            /\ UNCHANGED body_shape_key
    /\ Advance(t)
    /\ UNCHANGED <<rwlock, slot_mutex, overlap_queue, notLockVars>>

RunCode(t) ==
    /\ At(t, "run")
    /\ overlap_queue' = CASE Todo(t).on = "clear_events" -> "emptied"
                           [] Todo(t).on = "push_event" -> "partial"
                           [] Todo(t).on = "push_last_event" -> "complete"
                           [] OTHER -> overlap_queue
    /\ Advance(t)
    /\ UNCHANGED <<rwlock, slot_mutex, body_shape_key, joint_slots, notLockVars>>

\* The caller reads, under its guards, what decides the rest of the operation.
Continue(t) ==
    /\ At(t, "branch")
    /\ LET th == thread[t]
           label == Todo(t).on
           rest == CASE label = "set_shape" ->
                            set_shape_rest(th.body, th.shape, body_shape_key[th.body])
                     [] label = "update_shape" -> update_shape_rest(Unwrap(th.shape), 0)
                     [] label = "insert_rigid_body" ->
                            insert_rigid_body_rest(joint_slots, th.body)
                     [] label = "remove_rigid_body" ->
                            remove_rigid_body_rest(joint_slots, th.body)
           joint == CASE label = "insert_rigid_body" ->
                            update_internal_joint_slots(
                                insert_rigid_body_slots(joint_slots, th.body))
                      [] label = "remove_rigid_body" ->
                            update_internal_joint_slots(
                                remove_rigid_body_slots(joint_slots, th.body))
                      [] OTHER -> joint_slots
       IN /\ thread' = [thread EXCEPT ![t].todo = rest]
          /\ joint_slots' = joint
    /\ UNCHANGED <<rwlock, slot_mutex, body_shape_key, overlap_queue, notLockVars>>

\* The operation returns: its guards go out of scope.
ReturnCall(t) ==
    /\ At(t, "return")
    /\ rwlock' = [table \in Tables |->
                    [writer |-> rwlock[table].writer \ {t},
                     readers |-> rwlock[table].readers \ {t}]]
    /\ slot_mutex' = [slot \in Slots |-> slot_mutex[slot] \ {t}]
    /\ thread' = [thread EXCEPT ![t] = Idle]
    /\ UNCHANGED <<body_shape_key, joint_slots, overlap_queue, notLockVars>>

NextLock ==
    \E t \in Threads :
        \/ \E body \in BodySlots, shape \in {None} \cup {Some(x) : x \in ShapeSlots} :
               CallSetShape(t, body, shape)
        \/ \E body \in BodySlots : CallSetTransform(t, body)
        \/ CallCreateShape(t)
        \/ \E shape \in ShapeSlots : CallUpdateShape(t, shape)
        \/ \E body \in BodySlots : CallInsertRigidBody(t, body)
        \/ \E body \in BodySlots : CallRemoveRigidBody(t, body)
        \/ CallStep(t)
        \/ \E area \in BodySlots : CallOverlapEvents(t, area)
        \/ AcquireRead(t)
        \/ AcquireWrite(t)
        \/ ReleaseRead(t)
        \/ ReleaseWrite(t)
        \/ LockSlot(t)
        \/ UnlockSlot(t)
        \/ AssignField(t)
        \/ RunCode(t)
        \/ Continue(t)
        \/ ReturnCall(t)

SpecLock == InitLock /\ [][NextLock]_vars

\* The callers holding the lock that caller t is asking for.
Blockers(t) ==
    IF At(t, "read") THEN rwlock[Todo(t).on].writer \ {t}
    ELSE IF At(t, "write")
         THEN (rwlock[Todo(t).on].writer \cup rwlock[Todo(t).on].readers) \ {t}
    ELSE IF At(t, "lock") THEN slot_mutex[<<Todo(t).on, Todo(t).i>>] \ {t}
    ELSE {}

\* C4: in no reachable state do two callers each wait for a table lock or a slot lock
\* that the other one holds, so no call of step, insert_rigid_body, remove_rigid_body,
\* set_shape or update_shape is kept from returning by another caller.
C4_NoCallersWaitOnEachOther ==
    \A t, u \in Threads : ~(t # u /\ u \in Blockers(t) /\ t \in Blockers(u))

\* The engine's integration pass (MechanicalWorld::step) is running in caller t.
Integrating(t) == At(t, "run") /\ Todo(t).on = "integrate"

EngineTables == {"bodies", "colliders", "joints", "force_generators"}
ObjectTables == EngineTables \cup {"shapes"}

\* Caller t has the table for itself: it is the writer, and nobody else reads the
\* table or is inside the Mutex of one of its slots.
Exclusive(t, table) ==
    /\ rwlock[table] = [writer |-> {t}, readers |-> {}]
    /\ \A slot \in Slots : slot[1] = table => slot_mutex[slot] \subseteq {t}

\* C9 as stated: while the integration pass runs, the stepping thread holds the write
\* lock of every object table: bodies, colliders, shapes, joints and force generators.
C9_PassHoldsEveryTable ==
    \A t \in Threads : Integrating(t) => \A table \in ObjectTables : Exclusive(t, table)

\* C9 amended: while the integration pass runs, the stepping thread holds the write
\* lock of the body, collider, joint and force-generator tables at the same time, and
\* no other caller reads them or holds a guard on one of their slots; it holds no lock
\* of the shape table.
C9_PassHoldsEngineTables ==
    \A t \in Threads :
        Integrating(t) =>
            /\ \A table \in EngineTables : Exclusive(t, table)
            /\ t \notin rwlock["shapes"].writer \cup rwlock["shapes"].readers

\* The pass runs in one caller while another caller is inside create_shape, holding the
\* shape table's write lock, and a caller that asks for the body table has to wait.
C9_Witness ==
    \E t, u \in Threads :
        /\ Integrating(t)
        /\ rwlock["shapes"].writer = {u}
        /\ Exclusive(t, "bodies")

\* C10: a slot's guard is held by at most one caller, and only under a lock of the
\* slot's table; a caller asking for a slot's guard gets it exactly when nobody holds
\* the guard of that same slot, whatever guards are held on other slots.
C10_SlotGuards ==
    /\ \A slot \in Slots :
          /\ Cardinality(slot_mutex[slot]) <= 1
          /\ slot_mutex[slot] \subseteq
                 rwlock[slot[1]].readers \cup rwlock[slot[1]].writer
    /\ \A t \in Threads :
          At(t, "lock") =>
              (ENABLED LockSlot(t) <=> slot_mutex[<<Todo(t).on, Todo(t).i>>] = {})

\* Two callers, both under the body table's read lock, each holding the guard of a
\* different body.
C10_Witness ==
    \E t, u \in Threads :
        /\ t # u
        /\ {t, u} \subseteq rwlock["bodies"].readers
        /\ slot_mutex[<<"bodies", 0>>] = {t}
        /\ slot_mutex[<<"bodies", 1>>] = {u}

\* The stepping caller t is between the start of the integration pass and the end of
\* the event translation.
InPassOrTranslation(t) ==
    /\ thread[t].op = "step"
    /\ At(t, "run")
    /\ Todo(t).on \in {"integrate", "clear_events", "push_event", "push_last_event"}

\* C11: from the start of the integration pass until the event translation has
\* finished, the stepping caller is the only holder of the body table (no reader, no
\* slot guard of another caller); and whenever overlap_events copies an area's event
\* list, the list is complete: it is the whole list of the previous step or the whole
\* list of the current one, never an emptied or partly refilled list.
C11_EventsSeenWhole ==
    /\ \A t \in Threads : InPassOrTranslation(t) => Exclusive(t, "bodies")
    /\ \A t \in Threads :
          (At(t, "run") /\ Todo(t).on = "overlap_events") => overlap_queue = "complete"

\* A caller of overlap_events waits for the body table while the stepping caller has
\* emptied the areas' lists and pushed only the first event of the step.
C11_Witness ==
    \E t, u \in Threads :
        /\ thread[t].op = "overlap_events" /\ At(t, "read") /\ u \in Blockers(t)
        /\ thread[u].op = "step" /\ overlap_queue = "partial"

(***************************************************************************)
(* The event translator (SpecEvents).                                      *)
(***************************************************************************)
Areas(bs) == {k \in LiveKeys(bs) : Unwrap(Get(bs, k)).kind = "Area"}

\* The events in the areas' lists of the body table bs.
QueuedEvents(bs) ==
    UNION {{[area |-> a, i |-> i, type |-> Unwrap(Get(bs, a)).events[i].type,
             tag |-> Unwrap(Get(bs, a)).events[i].tag] :
               i \in DOMAIN Unwrap(Get(bs, a)).events} : a \in Areas(bs)}

\* step is translating the transitions of the pass into the areas' lists.
Translating == pc = "fetch_events" /\ pc' = "idle"

\* C12: for the transition (previous, new) the engine reported, the translation leaves
\* an Enter event in the areas' lists exactly when new is intersecting and previous is
\* not, an Exit event exactly when previous is intersecting and new is not, never more
\* than one event, and none when the two are equal or neither is intersecting.
C12_EnterExitClassification ==
    [][(Translating /\ prox_events # << >>) =>
          LET e == prox_events[1]
              out == QueuedEvents(bodies')
          IN /\ (\E x \in out : x.type = "Enter")
                    <=> (e.new_status = "Intersecting" /\ e.prev_status # "Intersecting")
             /\ (\E x \in out : x.type = "Exit")
                    <=> (e.prev_status = "Intersecting" /\ e.new_status # "Intersecting")
             /\ Cardinality(out) <= 1
             /\ (e.prev_status = e.new_status
                   \/ (e.prev_status # "Intersecting" /\ e.new_status # "Intersecting"))
                    => out = {}]_vars

\* A step has just delivered an Exit event to an area, for a pair that had an Enter
\* event in an earlier step.
C12_Witness ==
    /\ pc = "idle" /\ last.op = "step"
    /\ \E x \in QueuedEvents(bodies) : x.type = "Exit"
    /\ \E p \in DOMAIN delivered : delivered[p] = "Exit" /\ proximity[p] # "Intersecting"

\* C13: for each pair of colliders, the event a step delivers to the area is never of
\* the type of the last event delivered for that pair: no second Enter before an Exit,
\* no second Exit before an Enter, and the first event of a pair is an Enter; the
\* engine reports each transition from the status it last held for the pair.
C13_NoRepeatedEnterOrExit ==
    [][(Translating /\ prox_events # << >>) =>
          LET pair == {prox_events[1].collider1, prox_events[1].collider2}
          IN \A x \in QueuedEvents(bodies') :
                IF pair \in DOMAIN delivered THEN x.type # delivered[pair]
                ELSE x.type = "Enter"]_vars

\* A pair is still intersecting after a later step: its Enter event was delivered in an
\* earlier step, and the step just made delivered nothing to any area.
C13_Witness ==
    /\ pc = "idle" /\ last.op = "step"
    /\ QueuedEvents(bodies) = {}
    /\ \E p \in DOMAIN delivered : delivered[p] = "Enter" /\ proximity[p] = "Intersecting"

\* The body a collider belongs to.
OwnerOf(c) == Unwrap(Get(colliders, c)).store_key

\* C14: when step has translated the transitions of its pass, the list of every area
\* holds no more events than the pass reported transitions, and each event in it is
\* about the two bodies of a transition of this pass, whatever the list held before;
\* between two steps the lists do not change, and overlap_events returns the list.
C14_EventsOfThisStepOnly ==
    /\ [][Translating =>
             \A x \in QueuedEvents(bodies') :
                /\ prox_events # << >>
                /\ x.i <= Len(prox_events)
                /\ {x.area, x.tag} = {OwnerOf(prox_events[1].collider1),
                                      OwnerOf(prox_events[1].collider2)}
                /\ x.type = "Enter" => prox_events[1].new_status = "Intersecting"
                /\ x.type = "Exit" => prox_events[1].prev_status = "Intersecting"]_vars
    /\ [][(pc = "idle" /\ pc' = "idle") => QueuedEvents(bodies') = QueuedEvents(bodies)]_vars
    /\ [][last'.op = "overlap_events" =>
             LET a == Unwrap(last'.key)
             IN last'.ret = Some(IF a \in Areas(bodies) THEN Unwrap(Get(bodies, a)).events
                                 ELSE << >>)]_vars

\* overlap_events has just returned an empty list for an area that was delivered an
\* event in an earlier step.
C14_Witness ==
    /\ last.op = "overlap_events" /\ last.ret = Some(<< >>)
    /\ Unwrap(last.key) \in Areas(bodies)
    /\ IsSome(BodyOf(World, Unwrap(last.key)).collider_key)
    /\ \E p \in DOMAIN delivered :
          /\ Unwrap(BodyOf(World, Unwrap(last.key)).collider_key) \in p
          /\ \A c \in p : Has(colliders, c) /\ OwnerOf(c) \in LiveKeys(bodies)
          /\ \E c \in p : BodyOf(World, OwnerOf(c)).kind = "Rigid"

(***************************************************************************)
(* Calls made with a tag that no longer resolves.                          *)
(***************************************************************************)
BodyKeyedCalls ==
    {"rbody_set_shape", "area_set_shape", "set_contacts_to_report", "contact_events",
     "overlap_events"}
JointKeyedCalls == {"insert_rigid_body", "remove_rigid_body"}
ListCalls == {"contact_events", "overlap_events"}

Stale(table, key) == [table |-> table, key |-> key] \in destroyed

\* The call names an object, by its first tag or by a tag it is handed, that the
\* collector has destroyed.
Unresolved(call) ==
    \/ call.op \in BodyKeyedCalls /\ Stale("bodies", Unwrap(call.key))
    \/ call.op = "update_shape" /\ Stale("shapes", Unwrap(call.key))
    \/ call.op \in JointKeyedCalls /\ Stale("joints", Unwrap(call.key))
    \/ call.op \in {"rbody_set_shape", "area_set_shape"}
          /\ IsSome(call.arg) /\ Stale("shapes", Unwrap(call.arg))
    \/ call.op \in JointKeyedCalls /\ Stale("bodies", Unwrap(call.arg))

SafeDefault(call) ==
    IF call.op \in ListCalls THEN call.ret = Some(<< >>) ELSE call.ret = None

\* C15: a server call made with a tag that no longer resolves returns its safe default
\* (nothing, or an empty list), returns at all, and leaves the bodies, colliders,
\* shapes, joints, pending event lists, collector queues and watch-list as they were.
C15_StaleTagChangesNothing ==
    [][(pc = "idle" /\ Unresolved(last'))
          => (World' = World /\ SafeDefault(last') /\ hung' = hung)]_vars

(***************************************************************************)
(* The contact watch-list (SpecContacts).                                  *)
(***************************************************************************)
\* C16: set_contacts_to_report(b, 0) on a rigid body b whose count was non-zero takes
\* b's key out of the watch-list, and contact_events(b) is empty after it, whatever
\* bodies were created or had their count changed before.
C16_ZeroCountUnwatches ==
    [][\A b \in LiveKeys(bodies) :
          (/\ pc = "idle"
           /\ last' = Call("set_contacts_to_report", Some(b), Some(0), None)
           /\ BodyOf(World, b).kind = "Rigid"
           /\ BodyOf(World, b).contacts_to_report # 0)
          => (~InSeq(b, watch_contacts') /\ contact_events(World', b) = << >>)]_vars

(***************************************************************************)
(* The tag conversions (SpecCodec).                                        *)
(***************************************************************************)
\* C17: for each of the four kinds, an (index, generation) tag converted to a store key
\* and back is the same tag, a store key converted to a tag and back is the same key,
\* and two distinct tags of a kind never convert to the same key.
C17_ConversionsInverse ==
    /\ (last.op = "tag_to_store_key" /\ Unwrap(last.arg).variant = "UsizeU64") =>
          /\ IsSome(last.ret)
          /\ opaque_conversors_from(Unwrap(last.arg).type, Unwrap(last.ret))
                = Unwrap(last.arg)
          /\ \A other \in CodecTags(Unwrap(last.arg).type) :
                (other.variant = "UsizeU64" /\ other # Unwrap(last.arg))
                   => opaque_conversors_to(other) # last.ret
    /\ last.op = "store_key_to_tag" =>
          /\ Unwrap(last.ret).type = Unwrap(last.arg)
          /\ opaque_conversors_to(Unwrap(last.ret)) = last.key

C17_Witness ==
    /\ last.op = "tag_to_store_key"
    /\ last.arg = Some(new_usizeu64("PhysicsJointTag", 1, MaxTagGeneration))
    /\ last.ret = Some(Key(1, MaxTagGeneration))

(***************************************************************************)
(* The collector's shape queue (SpecShape).                                *)
(***************************************************************************)
\* C18: after the shapes phase of a pass the shape queue holds exactly the tags that
\* were queued before and whose shape the pass did not remove, each of these shapes
\* has marked_for_drop set, and no tag of a removed shape is left in the queue.
C18_ShapeQueueAfterPass ==
    [][(pc = "gc_shapes" /\ pc' = "gc_joints") =>
          /\ \A k \in Tags("shapes") :
                InSeq(k, gc'.shapes) <=> (InSeq(k, gc.shapes) /\ Has(shapes', k))
          /\ \A k \in LiveKeys(shapes') :
                InSeq(k, gc'.shapes) => Unwrap(Get(shapes', k)).marked_for_drop]_vars

(***************************************************************************)
(* The joints' pending event lists and states (SpecJoint).                 *)
(***************************************************************************)
EventsFor(events, j) == Cardinality({i \in DOMAIN events : events[i].key = j})
HasConstraint(js, j) == Has(js, j) /\ IsSome(Unwrap(Get(js, j)).np_joint)

\* C19: a step of the program that creates the constraint of a joint appends exactly
\* one insertion event for the joint to the pending-insertion list, and a step that
\* destroys the constraint (remove_rigid_body on a materialized joint, or the collector
\* dropping one) appends exactly one removal event for it to the pending-removal list.
C19_OneEventPerChange ==
    [][\A j \in LiveKeys(joints) :
          /\ (~HasConstraint(joints, j) /\ HasConstraint(joints', j)) =>
                EventsFor(j_inserted', j) = EventsFor(j_inserted, j) + 1
          /\ (HasConstraint(joints, j) /\ ~HasConstraint(joints', j)) =>
                EventsFor(j_removed', j) = EventsFor(j_removed, j) + 1]_vars

\* C20: when no call is stuck, every stored joint has its constraint exactly when both
\* of its body slots are filled, whether the tags in the slots resolve or not.
C20_ConstraintIffBothSlots ==
    ~hung =>
        \A j \in LiveKeys(joints) :
            IsSome(JointOf(World, j).np_joint)
                <=> (IsSome(JointOf(World, j).body_0) /\ IsSome(JointOf(World, j).body_1))

\* The bodies in the slots of joint j that are stored.
SlotBodies(j) ==
    {b \in LiveKeys(bodies) :
        Some(b) \in {JointOf(World, j).body_0, JointOf(World, j).body_1}}

\* C21: remove_rigid_body on a materialized joint leaves awake every body that was in a
\* slot of the joint before the call, and the collector's drop of a materialized joint
\* leaves awake every body that was in its slots.
C21_TeardownWakesBodies ==
    [][\A j \in LiveKeys(joints) :
          (/\ HasConstraint(joints, j)
           /\ \/ pc = "idle" /\ last'.op = "remove_rigid_body" /\ last'.key = Some(j)
              \/ pc = "gc_joints" /\ pc' = "integrate" /\ InSeq(j, gc.joints))
          => \A b \in SlotBodies(j) : Unwrap(Get(bodies', b)).active]_vars

\* A body that was asleep under a constraint is awake after remove_rigid_body took the
\* other body out of the joint.
C21_Witness ==
    \E j \in LiveKeys(joints) :
        /\ last.op = "remove_rigid_body" /\ last.key = Some(j)
        /\ ~HasConstraint(joints, j)
        /\ \E b \in woken : Some(b) \in {JointOf(World, j).body_0, JointOf(World, j).body_1}

(***************************************************************************)
(* The anchors of a constraint (SpecAnchors).                              *)
(***************************************************************************)
\* C22: whenever a step of the program creates the constraint of a joint, on the first
\* materialization or on a later one, each anchor of the constraint is the inverse of
\* the transform its body has at that step, composed with the joint's initial
\* placement.
C22_AnchorsAtMaterialization ==
    [][\A j \in LiveKeys(joints) :
          (~HasConstraint(joints, j) /\ HasConstraint(joints', j)) =>
              LET after == Unwrap(Get(joints', j))
                  np_joint == Unwrap(after.np_joint)
              IN /\ np_joint.anchor_0
                       = IsoMul(IsoInverse(BodyOf(World, Unwrap(after.body_0)).transform),
                                after.initial_isometry)
                 /\ np_joint.anchor_1
                       = IsoMul(IsoInverse(BodyOf(World, Unwrap(after.body_1)).transform),
                                after.initial_isometry)]_vars

\* A constraint just made between two bodies that were moved, to different places,
\* after their creation: neither anchor is the joint's placement.
C22_Witness ==
    \E j \in LiveKeys(joints) :
        /\ last.op = "insert_rigid_body" /\ last.key = Some(j)
        /\ HasConstraint(joints, j)
        /\ Unwrap(JointOf(World, j).np_joint).anchor_0 # JointOf(World, j).initial_isometry
        /\ Unwrap(JointOf(World, j).np_joint).anchor_1 # JointOf(World, j).initial_isometry
        /\ Unwrap(JointOf(World, j).np_joint).anchor_0
              # Unwrap(JointOf(World, j).np_joint).anchor_1
        /\ JointOf(World, j).initial_isometry # IsoIdentity

(***************************************************************************)
(* The collector's bodies and areas phase (SpecShape).                     *)
(***************************************************************************)
\* No stored shape lists the body and no stored collider belongs to it.
Unreferenced(k, ss, cs) ==
    /\ \A s \in LiveKeys(ss) : ~InSeq(k, Unwrap(Get(ss, s)).bodies)
    /\ \A c \in LiveKeys(cs) : Unwrap(Get(cs, c)).store_key # k

\* C23: the first phase of a step takes every queued body and area out of the body
\* table, out of the attached-body set of the shape it referenced, and its collider out
\* of the collider table, and empties the body and area queues; this is still so in
\* every later phase of the step.
C23_QueuedBodiesDestroyed ==
    /\ [][(pc = "idle" /\ pc' = "gc_shapes") =>
             /\ gc'.bodies = << >> /\ gc'.areas = << >>
             /\ \A k \in LiveKeys(bodies) :
                   (InSeq(k, gc.bodies) \/ InSeq(k, gc.areas)) =>
                       /\ ~Has(bodies', k)
                       /\ Unreferenced(k, shapes', colliders')
                       /\ IsSome(BodyOf(World, k).collider_key) =>
                             ~Has(colliders', Unwrap(BodyOf(World, k).collider_key))
                       /\ (IsSome(BodyOf(World, k).shape_key)
                              /\ Has(shapes', Unwrap(BodyOf(World, k).shape_key))) =>
                             ~InSeq(k, Unwrap(Get(shapes',
                                       Unwrap(BodyOf(World, k).shape_key))).bodies)]_vars
    /\ [](pc # "idle" =>
             /\ gc.bodies = << >> /\ gc.areas = << >>
             /\ \A d \in destroyed :
                   d.table = "bodies" =>
                       ~Has(bodies, d.key) /\ Unreferenced(d.key, shapes, colliders))

\* The first phase has just destroyed a body that had a shape and a collider the engine
\* knew: the shape is still stored, with no body attached.
C23_Witness ==
    /\ pc = "gc_shapes"
    /\ \E k \in {bodies_removed[i] : i \in DOMAIN bodies_removed} :
          /\ Stale("bodies", k)
          /\ col_removed # << >>
          /\ \E s \in LiveKeys(shapes) : ShapeOf(World, s).bodies = << >>

\* C24: when a step begins with a shape queued and every body and area attached to it
\* queued too, the first phase leaves the shape with no body attached and the second
\* phase, run on what the first left, takes the shape out of the shape table.
C24_ShapeGoesWithItsBodies ==
    [][(pc = "idle" /\ pc' = "gc_shapes") =>
          \A s \in LiveKeys(shapes) :
              (/\ InSeq(s, gc.shapes)
               /\ ShapeOf(World, s).bodies # << >>
               /\ \A i \in DOMAIN ShapeOf(World, s).bodies :
                     \/ InSeq(ShapeOf(World, s).bodies[i], gc.bodies)
                     \/ InSeq(ShapeOf(World, s).bodies[i], gc.areas))
              => /\ Unwrap(Get(shapes', s)).bodies = << >>
                 /\ ~Has(gc_shapes(World').shapes, s)]_vars

(***************************************************************************)
(* Bodies, shapes and colliders referring to each other (SpecShape).       *)
(***************************************************************************)
Occurrences(x, seq) == Cardinality({i \in DOMAIN seq : seq[i] = x})

\* C25: a body key is in the attached-body set of a stored shape exactly when the body
\* is stored and its shape reference is that shape, it is listed there once, and the
\* shape reference of every stored body or area names a stored shape.
C25_ShapeReferencesConsistent ==
    /\ \A s \in LiveKeys(shapes) :
          /\ \A i \in DOMAIN ShapeOf(World, s).bodies :
                LET b == ShapeOf(World, s).bodies[i]
                IN /\ Has(bodies, b)
                   /\ BodyOf(World, b).shape_key = Some(s)
                   /\ Occurrences(b, ShapeOf(World, s).bodies) = 1
          /\ \A b \in LiveKeys(bodies) :
                BodyOf(World, b).shape_key = Some(s) => InSeq(b, ShapeOf(World, s).bodies)
    /\ \A b \in LiveKeys(bodies) :
          IsSome(BodyOf(World, b).shape_key) => Has(shapes, Unwrap(BodyOf(World, b).shape_key))

\* C26: every stored body or area holds at most one collider key and at most one shape
\* key, and one that holds a shape key holds a collider key that resolves in the
\* collider table.
C26_ShapeImpliesCollider ==
    \A b \in LiveKeys(bodies) :
        /\ Len(BodyOf(World, b).collider_key) <= 1
        /\ Len(BodyOf(World, b).shape_key) <= 1
        /\ IsSome(BodyOf(World, b).shape_key) =>
              /\ IsSome(BodyOf(World, b).collider_key)
              /\ Has(colliders, Unwrap(BodyOf(World, b).collider_key))

\* A body whose shape was just updated: its first collider was dropped, and it holds the
\* collider built in its place.
C26_Witness ==
    \E b \in LiveKeys(bodies) :
        /\ last.op = "update_shape"
        /\ BodyOf(World, b).shape_key = last.key
        /\ IsSome(BodyOf(World, b).collider_key)
        /\ Has(colliders, Unwrap(BodyOf(World, b).collider_key))
        /\ colliders.generation >= 1

\* The stored bodies and areas whose collider key is c.
Owners(c) == {b \in LiveKeys(bodies) : BodyOf(World, b).collider_key = Some(c)}

\* C27: every collider in the collider table is the collider of exactly one stored body
\* or area.
C27_ColliderHasOneOwner ==
    \A c \in LiveKeys(colliders) : Cardinality(Owners(c)) = 1

\* Two bodies attached to one shape, each with a collider of its own.
C27_Witness ==
    /\ Cardinality(LiveKeys(colliders)) = 2
    /\ \E s \in LiveKeys(shapes) : Len(ShapeOf(World, s).bodies) = 2
    /\ \A c \in LiveKeys(colliders) : \E b \in Owners(c) : Unwrap(Get(colliders, c)).store_key = b

\* The body that holds collider c.
HolderOf(c) == CHOOSE b \in LiveKeys(bodies) : BodyOf(World, b).collider_key = Some(c)

\* The engine reported a transition into or out of intersection.
Crossing(e) == (e.prev_status = "Intersecting") # (e.new_status = "Intersecting")

\* C28: when step translates a transition into or out of intersection between the
\* collider of an area and the collider of a rigid body, in either order of the two
\* colliders, the list of that area ends with exactly one event, which carries the tag
\* of the rigid body and the entity the rigid body has, and the list of every other
\* area is empty.
C28_OneEventForTheArea ==
    [][(Translating /\ prox_events # << >>) =>
          LET e == prox_events[1]
              pair == {HolderOf(e.collider1), HolderOf(e.collider2)}
          IN \A a \in pair, b \in pair :
                (Crossing(e) /\ BodyOf(World, a).kind = "Area"
                             /\ BodyOf(World, b).kind = "Rigid")
                    => /\ Len(Unwrap(Get(bodies', a)).events) = 1
                       /\ Unwrap(Get(bodies', a)).events[1].tag = b
                       /\ Unwrap(Get(bodies', a)).events[1].entity = BodyOf(World, b).entity
                       /\ \A o \in Areas(bodies') \ {a} :
                              Unwrap(Get(bodies', o)).events = << >>]_vars

\* A step has just delivered to an area one event that carries the entity of a rigid
\* body, which is not the entity the area has.
C28_Witness ==
    /\ pc = "idle" /\ last.op = "step"
    /\ \E a \in Areas(bodies) :
          /\ Len(BodyOf(World, a).events) = 1
          /\ IsSome(BodyOf(World, a).events[1].entity)
          /\ IsSome(BodyOf(World, a).entity)
          /\ BodyOf(World, a).events[1].entity # BodyOf(World, a).entity
          /\ Has(bodies, BodyOf(World, a).events[1].tag)
          /\ BodyOf(World, BodyOf(World, a).events[1].tag).kind = "Rigid"
          /\ BodyOf(World, BodyOf(World, a).events[1].tag).entity
                 = BodyOf(World, a).events[1].entity

\* C29: when step translates a transition between the colliders of two areas, or of two
\* rigid bodies, no list of any area holds an event afterwards; and every event that a
\* translation leaves in the list of an area carries the tag of a rigid body, never
\* that of an area.
C29_OnlyAreaBodyPairs ==
    [][(Translating /\ prox_events # << >>) =>
          LET e == prox_events[1]
          IN /\ BodyOf(World, HolderOf(e.collider1)).kind
                    = BodyOf(World, HolderOf(e.collider2)).kind
                 => QueuedEvents(bodies') = {}
             /\ \A x \in QueuedEvents(bodies') :
                    Unwrap(Get(bodies', x.tag)).kind = "Rigid"]_vars

\* The watch-list is in increasing order of key, which leaves no key in it twice.
WatchSorted ==
    \A i \in 1..(Len(watch_contacts) - 1) : KeyLess(watch_contacts[i], watch_contacts[i + 1])

\* The stored rigid bodies that ask for contacts.
Reporting ==
    {b \in LiveKeys(bodies) :
        BodyOf(World, b).kind = "Rigid" /\ BodyOf(World, b).contacts_to_report # 0}

\* C30: after any sequence of rigid-body creations, set_contacts_to_report calls,
\* releases and steps, the watch-list is sorted, holds no key twice, and holds exactly
\* the keys of the stored rigid bodies whose contacts-to-report count is not zero.
C30_WatchListExact ==
    pc = "idle" =>
        /\ WatchSorted
        /\ {watch_contacts[i] : i \in DOMAIN watch_contacts} = Reporting

(***************************************************************************)
(* The collider of a body and the shape it is built from (SpecShape).       *)
(***************************************************************************)
\* The collider stored for body b, which has one.
ColliderOf(b) == Unwrap(Get(colliders, Unwrap(BodyOf(World, b).collider_key)))

\* The bodies whose collider and shape are both stored.
Shaped ==
    {b \in LiveKeys(bodies) :
        /\ IsSome(BodyOf(World, b).collider_key)
        /\ Has(colliders, Unwrap(BodyOf(World, b).collider_key))
        /\ IsSome(BodyOf(World, b).shape_key)
        /\ Has(shapes, Unwrap(BodyOf(World, b).shape_key))}

\* C31: the collider of an area is a sensor of density zero; the collider of a rigid
\* body is not a sensor, has density zero when the body's shape is concave and density
\* one otherwise, and carries the material handle of the body.
C31_ColliderFollowsKinds ==
    \A b \in Shaped :
        IF BodyOf(World, b).kind = "Area"
        THEN ColliderOf(b).sensor /\ ColliderOf(b).density = 0
        ELSE /\ ~ColliderOf(b).sensor
             /\ ColliderOf(b).material
             /\ ColliderOf(b).density =
                    IF ShapeOf(World, Unwrap(BodyOf(World, b).shape_key)).concave
                    THEN 0 ELSE 1

\* set_shape has just attached a concave shape to a rigid body, while an area has a
\* collider too.
C31_Witness ==
    /\ last.op = "rbody_set_shape" /\ IsSome(last.arg)
    /\ Unwrap(last.key) \in Shaped
    /\ BodyOf(World, Unwrap(last.key)).shape_key = last.arg
    /\ ShapeOf(World, Unwrap(last.arg)).concave
    /\ ColliderOf(Unwrap(last.key)).density = 0
    /\ \E a \in Shaped : BodyOf(World, a).kind = "Area"

(***************************************************************************)
(* Access that bypasses the slots' Mutex (SpecLock).                        *)
(***************************************************************************)
\* C32: whenever a caller is about to execute code that reaches the objects of a table
\* without their Mutex, that caller holds the write lock of the table, nobody holds its
\* read lock, and no guard of any slot of the table is held.
C32_BypassOnlyUnderWriteLock ==
    \A t \in Threads :
        At(t, "run") =>
            \A table \in Bypasses(Todo(t).on) :
                /\ rwlock[table].writer = {t}
                /\ rwlock[table].readers = {}
                /\ \A slot \in Slots : slot[1] = table => slot_mutex[slot] = {}

\* A caller is in the engine's pass or is clearing the areas' lists, and another caller
\* is waiting for the body table.
C32_Witness ==
    \E t, u \in Threads :
        /\ t # u
        /\ At(t, "run") /\ "bodies" \in Bypasses(Todo(t).on)
        /\ At(u, "read") /\ Todo(u).on = "bodies"

(***************************************************************************)
(* Two objects of one table at once (SpecPairs).                            *)
(***************************************************************************)
\* C33: get_pair_mut of the body table and of the collider table panics when its two
\* handles are equal, and returns nothing then; with two different handles it does not
\* panic and returns, for each handle on its own, the object stored under it, or None
\* when the handle was removed; the two objects it returns are never the same slot.
C33_PairNeverAliases ==
    last.op \in PairTables =>
        LET handle1 == Unwrap(last.key)
            handle2 == Unwrap(last.arg)
            ret == Unwrap(last.ret)
        IN IF handle1 = handle2
           THEN ret.panicked /\ ret.refs = << >>
           ELSE /\ ~ret.panicked
                /\ ret.refs[1] = Get(st, handle1)
                /\ ret.refs[2] = Get(st, handle2)
                /\ IsNone(ret.refs[1]) <=> handle1 \in removed
                /\ IsNone(ret.refs[2]) <=> handle2 \in removed
                /\ (IsSome(ret.refs[1]) /\ IsSome(ret.refs[2]))
                      => handle1.index # handle2.index

\* get_pair_mut was called with a removed handle and the handle of a stored object that
\* has taken the removed one's slot: it returned None and the object.
C33_Witness ==
    /\ last.op \in PairTables
    /\ Unwrap(last.key).index = Unwrap(last.arg).index
    /\ Unwrap(last.key) # Unwrap(last.arg)
    /\ ~Unwrap(last.ret).panicked
    /\ IsNone(Unwrap(last.ret).refs[1])
    /\ IsSome(Unwrap(last.ret).refs[2])

(***************************************************************************)
(* Calls of one caller alone (SpecJoint).                                   *)
(***************************************************************************)
\* C34: with one caller and nobody else, every call returns: no call asks for the Mutex
\* of a slot, or for the lock of a table, that its own thread holds, insert_rigid_body
\* of a body that is in the joint's other slot included.
C34_EveryCallReturns == ~hung

(***************************************************************************)
(* Joints and collected bodies (SpecJoint).                                 *)
(***************************************************************************)
\* C35: when the collector has finished its pass and the engine's pass is about to
\* begin, every body in a slot of a stored joint is in the body table, and so is every
\* body a materialized constraint is anchored to.
C35_NoJointOnCollectedBody ==
    pc = "integrate" =>
        \A j \in LiveKeys(joints) :
            /\ IsSome(JointOf(World, j).body_0) =>
                   Has(bodies, Unwrap(JointOf(World, j).body_0))
            /\ IsSome(JointOf(World, j).body_1) =>
                   Has(bodies, Unwrap(JointOf(World, j).body_1))
            /\ IsSome(JointOf(World, j).np_joint) =>
                   /\ Has(bodies, Unwrap(JointOf(World, j).np_joint).body_0)
                   /\ Has(bodies, Unwrap(JointOf(World, j).np_joint).body_1)

(***************************************************************************)
(* The colliders' side-table (SpecSideTable).                               *)
(***************************************************************************)
\* The object type a server records for a body of the kind.
ObjectTypeOf(kind) == IF kind = "Rigid" THEN "RigidBody" ELSE "Area"

\* C36: the object type, the key and the entity recorded in every stored collider are
\* those of the body that holds it, after any sequence of set_shape, update_shape and
\* set_entity; every event a step leaves in the list of an area carries the entity that
\* the body it names has at that step; and set_entity of the rigid-body server called
\* with the key of an area, or of the area server with the key of a rigid body,
\* changes neither the entity nor any collider.
C36_SideTableFollowsOwner ==
    /\ [](\A c \in LiveKeys(colliders) :
             /\ Cardinality(Owners(c)) = 1
             /\ Unwrap(Get(colliders, c)).store_key = HolderOf(c)
             /\ Unwrap(Get(colliders, c)).object_type
                    = ObjectTypeOf(BodyOf(World, HolderOf(c)).kind)
             /\ Unwrap(Get(colliders, c)).entity = BodyOf(World, HolderOf(c)).entity)
    /\ [][Translating =>
             \A a \in Areas(bodies') :
                \A i \in DOMAIN Unwrap(Get(bodies', a)).events :
                    Unwrap(Get(bodies', a)).events[i].entity
                       = BodyOf(World, Unwrap(Get(bodies', a)).events[i].tag).entity]_vars
    /\ [][\A b \in LiveKeys(bodies) :
             (/\ pc = "idle"
              /\ last'.key = Some(b)
              /\ \/ last'.op = "rbody_set_entity" /\ BodyOf(World, b).kind = "Area"
                 \/ last'.op = "area_set_entity" /\ BodyOf(World, b).kind = "Rigid")
             => World' = World]_vars

\* set_entity has just given an entity to a rigid body that has a collider, and an area
\* with another entity has a collider too.
C36_Witness ==
    /\ last.op = "rbody_set_entity" /\ IsSome(last.arg)
    /\ Has(bodies, Unwrap(last.key))
    /\ BodyOf(World, Unwrap(last.key)).kind = "Rigid"
    /\ BodyOf(World, Unwrap(last.key)).entity = last.arg
    /\ IsSome(BodyOf(World, Unwrap(last.key)).collider_key)
    /\ \E a \in Areas(bodies) :
          /\ IsSome(BodyOf(World, a).collider_key)
          /\ IsSome(BodyOf(World, a).entity)
          /\ BodyOf(World, a).entity # last.arg

(***************************************************************************)
(* set_shape on its edges (SpecShape).                                      *)
(***************************************************************************)
SetShapeCalls == {"rbody_set_shape", "area_set_shape"}

\* C37: set_shape(b, Some(s)) on a stored body or area b that references a shape other
\* than s, when s is not stored, leaves b without shape reference and without
\* collider, leaves b out of the attached bodies of the shape it referenced, drops the
\* collider b had, and inserts no collider.
C37_MissingShapeStillDetaches ==
    [][\A b \in LiveKeys(bodies) :
          (/\ pc = "idle"
           /\ last'.op \in SetShapeCalls /\ last'.key = Some(b)
           /\ IsSome(last'.arg) /\ ~Has(shapes, Unwrap(last'.arg))
           /\ IsSome(BodyOf(World, b).shape_key)
           /\ BodyOf(World, b).shape_key # last'.arg)
          => /\ IsNone(Unwrap(Get(bodies', b)).shape_key)
             /\ IsNone(Unwrap(Get(bodies', b)).collider_key)
             /\ \A old \in LiveKeys(shapes') :
                    ~InSeq(b, Unwrap(Get(shapes', old)).bodies)
             /\ LiveKeys(colliders') =
                    LiveKeys(colliders) \ {c \in LiveKeys(colliders) :
                                              BodyOf(World, b).collider_key = Some(c)}
             /\ col_inserted' = col_inserted]_vars

\* set_shape has just been called with the tag of a destroyed shape on a body that
\* was attached to a stored shape, and had a collider: the body has neither now.
C37_Witness ==
    /\ last.op \in SetShapeCalls /\ IsSome(last.arg)
    /\ ~Has(shapes, Unwrap(last.arg))
    /\ Has(bodies, Unwrap(last.key))
    /\ IsNone(BodyOf(World, Unwrap(last.key)).shape_key)
    /\ IsNone(BodyOf(World, Unwrap(last.key)).collider_key)
    /\ IsSome(replaced) /\ replaced # last.arg
    /\ Has(shapes, Unwrap(replaced))
    /\ colliders.generation >= 1

\* C38: set_shape called with the shape reference the body or area already has (the
\* same shape, or None when it has none) changes nothing: the bodies, the shapes with
\* their attached-body sets, the colliders and every queue of insertion and removal
\* events for the engine are after the call what they were before it.
C38_SameShapeChangesNothing ==
    [][(/\ pc = "idle"
        /\ last'.op \in SetShapeCalls
        /\ Has(bodies, Unwrap(last'.key))
        /\ BodyOf(World, Unwrap(last'.key)).shape_key = last'.arg)
       => /\ World' = World
          /\ colliders' = colliders /\ shapes' = shapes /\ bodies' = bodies
          /\ col_inserted' = col_inserted /\ col_removed' = col_removed]_vars

\* set_shape has just been called with the stored shape the body already referenced:
\* the body is attached to it and has its collider.
C38_Witness ==
    /\ last.op \in SetShapeCalls /\ IsSome(last.arg)
    /\ replaced = last.arg
    /\ Has(bodies, Unwrap(last.key))
    /\ Has(shapes, Unwrap(last.arg))
    /\ BodyOf(World, Unwrap(last.key)).shape_key = last.arg
    /\ IsSome(BodyOf(World, Unwrap(last.key)).collider_key)
    /\ InSeq(Unwrap(last.key), ShapeOf(World, Unwrap(last.arg)).bodies)

\* The bodies of the attached-body set of shape s that are stored.
AttachedTo(s) == {b \in LiveKeys(bodies) : InSeq(b, ShapeOf(World, s).bodies)}

\* update_shape has replaced the collider of body b: b keeps its shape reference, its
\* old collider is no longer stored, and b holds one new stored collider, of b's kind,
\* whose key was appended to the insertion events.
Replaced_collider(b) ==
    LET old == BodyOf(World, b).collider_key
        new == Unwrap(Get(bodies', b)).collider_key
    IN /\ Unwrap(Get(bodies', b)).shape_key = BodyOf(World, b).shape_key
       /\ IsSome(old) /\ IsSome(new) /\ new # old
       /\ ~Has(colliders', Unwrap(old))
       /\ Has(colliders', Unwrap(new))
       /\ Unwrap(Get(colliders', Unwrap(new))).object_type =
              ObjectTypeOf(BodyOf(World, b).kind)
       /\ Unwrap(Get(colliders', Unwrap(new))).sensor = (BodyOf(World, b).kind = "Area")
       /\ {c \in LiveKeys(colliders') : Unwrap(Get(colliders', c)).store_key = b}
              = {Unwrap(new)}
       /\ ~InSeq(Unwrap(new), col_inserted) /\ InSeq(Unwrap(new), col_inserted')

\* update_shape is called on a stored shape.
UpdateShapeCall ==
    /\ pc = "idle"
    /\ last'.op = "update_shape"
    /\ Has(shapes, Unwrap(last'.key))

\* C39 as stated: update_shape on a stored shape keeps the shape's attached-body set and
\* the shape reference of every attached body, and replaces the collider of each
\* attached body by exactly one new collider of the body's kind, the old collider
\* dropped with a removal event and the new one inserted with an insertion event.
C39_EveryOldColliderReported ==
    [][UpdateShapeCall
       => /\ Unwrap(Get(shapes', Unwrap(last'.key))).bodies
                 = ShapeOf(World, Unwrap(last'.key)).bodies
          /\ \A b \in AttachedTo(Unwrap(last'.key)) :
                 /\ Replaced_collider(b)
                 /\ InSeq(Unwrap(BodyOf(World, b).collider_key), col_removed')]_vars

\* C39, amended: update_shape on a stored shape keeps the shape's attached-body set and
\* the shape reference of every attached body, and replaces the collider of each
\* attached body by exactly one new collider of the body's kind, inserted with an
\* insertion event; the old collider is dropped, with a removal event exactly when a
\* step had handed it to the engine, and the removal events grow by nothing else.
C39_CollidersReplaced ==
    [][UpdateShapeCall
       => /\ Unwrap(Get(shapes', Unwrap(last'.key))).bodies
                 = ShapeOf(World, Unwrap(last'.key)).bodies
          /\ \A b \in AttachedTo(Unwrap(last'.key)) :
                 /\ Replaced_collider(b)
                 /\ InSeq(Unwrap(BodyOf(World, b).collider_key), col_removed')
                        <=> ColliderOf(b).registered
          /\ Len(col_inserted') =
                 Len(col_inserted) + Cardinality(AttachedTo(Unwrap(last'.key)))
          /\ Len(col_removed') = Len(col_removed)
                 + Cardinality({b \in AttachedTo(Unwrap(last'.key)) :
                                    ColliderOf(b).registered})]_vars

\* update_shape has just been called on a shape with a rigid body and an area attached:
\* both have a stored collider made by the call, one of them in place of a collider the
\* engine knew and one in place of a collider no step had seen.
C39_Witness ==
    /\ last.op = "update_shape" /\ Has(shapes, Unwrap(last.key))
    /\ Cardinality(AttachedTo(Unwrap(last.key))) = 2
    /\ \A b \in AttachedTo(Unwrap(last.key)) :
           /\ b \in Shaped
           /\ InSeq(Unwrap(BodyOf(World, b).collider_key), col_inserted)
           /\ Unwrap(BodyOf(World, b).collider_key).generation >= 1
    /\ Len(col_removed) = 1
    /\ colliders.generation = 2

\* C40: Storage.insert changes the capacity of the table only when the table is full
\* (as many stored objects as slots), and then the capacity grows by exactly the
\* growing_size the table was built with, never by doubling, before the object is
\* stored; the object is stored under the key returned, and every handle given out
\* before resolves after the insert to what it resolved to before it.
C40_GrowsByGrowingSizeWhenFull ==
    [][last'.op = "insert"
       => /\ Capacity(st') = IF st.len = Capacity(st)
                             THEN Capacity(st) + st.growing_size
                             ELSE Capacity(st)
          /\ st'.growing_size = st.growing_size
          /\ st'.len = st.len + 1
          /\ Get(st', Unwrap(last'.key)) = last'.ret
          /\ \A k \in issued : Get(st', k) = Get(st, k)]_vars

\* The second insert into a table built with one slot and a growing_size of two has
\* just found the table full: the table has three slots, not two, and holds both
\* objects under the keys given out.
C40_Witness ==
    /\ last.op = "insert"
    /\ st.growing_size = 2
    /\ st.len = 2 /\ st.generation = 0
    /\ Capacity(st) = 3
    /\ \A k \in issued : Has(st, k)
    /\ Cardinality(issued) = 2
====
